---------------------------- MODULE Spec2Model ----------------------------
(***************************************************************************)
(* A model of the core of gluon: the telemetry durability buffer           *)
(* (src/src/telemetry.ts), the secrets monitor (src/unnamed/part_003),     *)
(* the hook pipeline (src/src/hooks.ts) and the process supervisor         *)
(* (src/src/core/ci-output.ts).                                            *)
(*                                                                         *)
(* Each component has its own specification (SpecTelemetry, SpecLog,       *)
(* SpecScan, SpecStream, SpecHooks, SpecRun, SpecLifecycle, SpecEnv,       *)
(* SpecShared); a specification leaves the variables of the other          *)
(* components at their idle values.                                        *)
(***************************************************************************)
EXTENDS Integers, Sequences, FiniteSets, TLC

VARIABLES
    \* ---- TelemetryCollector (src/src/telemetry.ts) ----
    buffer,          \* this.buffer: the in-memory events, in array order
    enabled,         \* this.enabled
    bufferSize,      \* this.bufferSize
    flushTimer,      \* TRUE while the setInterval timer is installed
    cloudProjectId,  \* TRUE when a cloud project id is set
    storage,         \* the durable log at storagePath: its lines, in file order
    flights,         \* the asyncFlush calls suspended at an await
    nextId,          \* the next event id generateEventId hands out
    shutdownState,   \* "none" | "pending" | "resolved" | "rejected"
    shutdownPre,     \* the id of the last event recorded before shutdown() was called
    lastOp,          \* what the last collector operation did (history)
    logExists,       \* TRUE when the file at storagePath exists
    syncs            \* the syncAllToCloud calls suspended at writeFile

telVars == <<buffer, enabled, bufferSize, flushTimer, cloudProjectId, storage,
             flights, nextId, shutdownState, shutdownPre, lastOp, logExists, syncs>>

VARIABLES
    \* ---- SecretsMonitor (src/unnamed/part_003) ----
    mode,              \* this.mode: "detect" | "redact" | "block"
    secretsEnabled,    \* this.enabled
    redactText,        \* this.redactText
    trackedEnvValues,  \* this.trackedEnvValues: the Map's entries in insertion order
    chunk,             \* the bytes of the chunk handed to scan or transform
    matches,           \* the SecretMatch list the last scan returned
    exposures,         \* the secret_exposure events the last scan recorded
    output,            \* what the last transform returned
    scanOp             \* the last monitor call: "none" | "scan" | "transform"

scanVars == <<mode, secretsEnabled, redactText, trackedEnvValues,
              chunk, matches, exposures, output, scanOp>>

VARIABLES
    \* ---- HookManager (src/src/hooks.ts), one stream of it ----
    hmContext,       \* TRUE when this.context is set (not null)
    transformHooks,  \* this.transformHooks[stream], in registration order
    streamHooks,     \* this.hooks[stream]: the observers, in registration order
    pipeState,       \* "open" | "stalled": the Transform of createStreamTransform
    pipeChunk,       \* the chunk last written to the Transform (history)
    forwarded,       \* what the Transform's callback was given for it (history)
    transformCalls,  \* the transform hooks invoked for it: <<index, input>> (history)
    observerCalls,   \* the observers invoked for it: <<index, chunk seen>> (history)
    pipeOp           \* "none" | "write"

pipeConfig == <<hmContext, transformHooks, streamHooks, pipeState>>
pipeHistory == <<pipeChunk, forwarded, transformCalls, observerCalls, pipeOp>>
hookVars == <<pipeConfig, pipeHistory>>

VARIABLES
    \* ---- run() (src/src/core/ci-output.ts) ----
    lifecycleHooks,  \* this.hooks[milestone] of the run's HookManager
    threads,         \* the position of run() and of its asynchronous handlers
    child,           \* "none" | "running" | "failed" | "errored" | "closed"
    childKill,       \* the signal child.kill() delivered to the child, or "none"
    closeCode,       \* the code the close event carried
    closeSignal,     \* the signal the close event carried, or "none"
    signalHandlers,  \* TRUE while run()'s handlers are installed on the parent
    result,          \* the promise run() returned
    runEvents,       \* the telemetry events run() recorded, in order
    hookLog          \* the trace of the lifecycle hooks: their starts and ends, in order

runVars == <<lifecycleHooks, threads, child, childKill, closeCode, closeSignal,
             signalHandlers, result, runEvents, hookLog>>

VARIABLES
    \* ---- the environment of the child of run() (src/src/core/ci-output.ts) ----
    parentEnv,       \* process.env of the parent
    envOverrides,    \* options.env of the call
    spawned          \* the session id of the call, where it went, and the child's env

envVars == <<parentEnv, envOverrides, spawned>>

VARIABLES
    \* ---- the chunks of one stream, as the monitor is given them ----
    prevChunk,       \* the chunk scanned before chunk
    prevMatches      \* the matches scan returned for it

streamVars == <<prevChunk, prevMatches>>

VARIABLES
    \* ---- runs that share one HookManager (createRunner) ----
    sharedContext,   \* this.context of the shared HookManager
    runsAt,          \* where each call of run() stands
    hookCalls        \* the hook calls made so far, each with the context it was given

sharedVars == <<sharedContext, runsAt, hookCalls>>

VARIABLES
    \* ---- signals delivered to the parent process ----
    lastSignal       \* the last one: the signal, the child then, what was forwarded

signalVars == <<lastSignal>>


vars == <<telVars, scanVars, hookVars, runVars, envVars, streamVars, sharedVars, signalVars>>

\* what a step of one component leaves alone
notTelVars == <<scanVars, hookVars, runVars, envVars, streamVars, sharedVars, signalVars>>
notScanVars == <<telVars, runVars, envVars, streamVars, sharedVars, signalVars>>
notHookVars == <<telVars, runVars, envVars, streamVars, sharedVars, signalVars>>
notRunVars == <<telVars, scanVars, envVars, streamVars, sharedVars>>

-----------------------------------------------------------------------------
(* Bounds of the model *)

\* record() is called at most MaxEvents times
MaxEvents == 3
\* config.bufferSize is drawn from 1..MaxBufferSize
MaxBufferSize == 2
\* a chunk is made of at most MaxBlocks of the blocks of Blocks
MaxBlocks == 3
\* at most MaxHooks transform hooks and MaxHooks observers are registered
MaxHooks == 2
\* at most MaxLifecycleHooks hooks are registered for a milestone
MaxLifecycleHooks == 1
MaxRegistered == 3
\* the durable log of earlier sessions holds at most MaxLogged lines
MaxLogged == 2
\* readEvents is called with limits 0..MaxLimit, or without one
MaxLimit == 3

-----------------------------------------------------------------------------
(* Helpers on sequences *)

\* the number of elements of s whose id is i
CountId(s, i) == Cardinality({k \in 1..Len(s) : s[k].id = i})

\* events.forEach(e => e.synced = true)
MarkSynced(s) == [k \in 1..Len(s) |-> [s[k] EXCEPT !.synced = TRUE]]

-----------------------------------------------------------------------------
(* TelemetryCollector *)

NoOp == [op |-> "none", kind |-> "none", snapshot |-> <<>>, since |-> 0,
         overlapped |-> FALSE, result |-> 0]

\* telemetry.ts:207-216: the event record() stamps
NewEvent(id) == [id |-> id, synced |-> FALSE]

\* telemetry.ts:345 with the snapshot put behind the live buffer
MergeBackBehind(events, live) == live \o events

\* telemetry.ts:345 with the snapshot dropped
MergeBackDropped(events, live) == live

\* telemetry.ts:345: this.buffer = [...events, ...this.buffer]
MergeBack(events, live) == events \o live

\* telemetry.ts:317-333 without the test for an empty buffer
StartFlushOfAnything(b, kind, fl, since) ==
    [buffer |-> <<>>,
     flights |-> {[f EXCEPT !.overlapped = TRUE] : f \in fl} \cup
                 {[snapshot |-> IF cloudProjectId THEN MarkSynced(b) ELSE b,
                   kind |-> kind,
                   since |-> since,
                   overlapped |-> fl # {}]},
     started |-> TRUE]

\* telemetry.ts:317-333: the start of asyncFlush on buffer b.  An empty
\* buffer returns 0.  Otherwise the snapshot is taken and the live buffer
\* cleared; with a cloud project the call awaits the syncToCloud stub, which
\* resolves in the same turn of the event loop with no effect, and marks the
\* snapshot's events synced; then the call suspends in mkdir and appendFile.
\* since is the id of the first event that can be recorded during the call
StartFlush(b, kind, fl, since) ==
    IF b = <<>>
    THEN [buffer |-> <<>>, flights |-> fl, started |-> FALSE]
    ELSE [buffer |-> <<>>,
          flights |-> {[f EXCEPT !.overlapped = TRUE] : f \in fl} \cup
                      {[snapshot |-> IF cloudProjectId THEN MarkSynced(b) ELSE b,
                        kind |-> kind,
                        since |-> since,
                        overlapped |-> fl # {}]},
          started |-> TRUE]

\* telemetry.ts:146-156: the constructor
InitTelemetry ==
    /\ buffer = <<>>
    /\ enabled \in BOOLEAN
    /\ bufferSize \in 1..MaxBufferSize
    /\ flushTimer \in {enabled}      \* flushIntervalMs > 0
    /\ cloudProjectId = FALSE
    /\ storage = <<>>
    /\ logExists = FALSE
    /\ syncs = {}
    /\ flights = {}
    /\ nextId = 1
    /\ shutdownState = "none"
    /\ shutdownPre = 0
    /\ lastOp = NoOp

\* telemetry.ts:161-163
SetCloudProjectId ==
    /\ ~cloudProjectId
    /\ nextId = 1 /\ shutdownState = "none"
    /\ cloudProjectId' = TRUE
    /\ lastOp' = NoOp
    /\ UNCHANGED <<notTelVars, buffer, enabled, bufferSize, flushTimer, storage, logExists, syncs, flights,
                   nextId, shutdownState, shutdownPre>>

\* the callers of flush() that attach a catch which logs the failure:
\* record() (telemetry.ts:223-225) and the timer (telemetry.ts:179-181)
CatchingCallers == {"record", "timer"}

\* telemetry.ts:201-230 with the flush started only above bufferSize
RecordFlushesAboveSize ==
    /\ nextId <= MaxEvents
    /\ nextId' = nextId + 1
    /\ LET e == NewEvent(nextId) IN
       IF enabled
       THEN LET b == Append(buffer, e)
                r == IF Len(b) > bufferSize
                     THEN StartFlush(b, "record", flights, nextId + 1)
                     ELSE [buffer |-> b, flights |-> flights, started |-> FALSE]
            IN /\ buffer' = r.buffer
               /\ flights' = r.flights
       ELSE UNCHANGED <<notTelVars, buffer, flights>>
    /\ lastOp' = NoOp
    /\ UNCHANGED <<notTelVars, enabled, bufferSize, flushTimer, cloudProjectId, storage, logExists, syncs,
                   shutdownState, shutdownPre>>

\* telemetry.ts:201-230: record(); the size-triggered flush starts inside it
\* and its failure is caught and logged
Record ==
    /\ nextId <= MaxEvents
    /\ nextId' = nextId + 1
    /\ LET e == NewEvent(nextId) IN
       IF enabled
       THEN LET b == Append(buffer, e)
                r == IF Len(b) >= bufferSize
                     THEN StartFlush(b, "record", flights, nextId + 1)
                     ELSE [buffer |-> b, flights |-> flights, started |-> FALSE]
            IN /\ buffer' = r.buffer
               /\ flights' = r.flights
       ELSE UNCHANGED <<notTelVars, buffer, flights>>
    /\ lastOp' = NoOp
    /\ UNCHANGED <<notTelVars, enabled, bufferSize, flushTimer, cloudProjectId, storage, logExists, syncs,
                   shutdownState, shutdownPre>>

\* telemetry.ts:178-182: the interval timer fires and calls flush()
TimerFlush ==
    /\ flushTimer
    /\ LET r == StartFlush(buffer, "timer", flights, nextId) IN
       /\ buffer' = r.buffer
       /\ flights' = r.flights
    /\ lastOp' = NoOp
    /\ UNCHANGED <<notTelVars, enabled, bufferSize, flushTimer, cloudProjectId, storage, logExists, syncs,
                   nextId, shutdownState, shutdownPre>>

\* telemetry.ts:353-355, 316-320: an explicit flush() call; a call on an
\* empty buffer returns 0 at once
Flush ==
    /\ LET r == StartFlush(buffer, "flush", flights, nextId) IN
       /\ buffer' = r.buffer
       /\ flights' = r.flights
       /\ lastOp' = [NoOp EXCEPT !.op = IF r.started THEN "flushStarted" ELSE "flushedNothing"]
    /\ UNCHANGED <<notTelVars, enabled, bufferSize, flushTimer, cloudProjectId, storage, logExists, syncs,
                   nextId, shutdownState, shutdownPre>>

\* telemetry.ts:447-450: shutdown() stops the timer and awaits one flush()
Shutdown ==
    /\ shutdownState = "none"
    /\ flushTimer' = FALSE
    /\ shutdownPre' = nextId - 1
    /\ LET r == StartFlush(buffer, "shutdown", flights, nextId) IN
       /\ buffer' = r.buffer
       /\ flights' = r.flights
       /\ shutdownState' = IF r.started THEN "pending" ELSE "resolved"
    /\ lastOp' = NoOp
    /\ UNCHANGED <<notTelVars, enabled, bufferSize, cloudProjectId, storage, logExists, syncs, nextId>>

\* telemetry.ts:336-342: mkdir and appendFile succeed: the snapshot's lines
\* are at the end of the log and the call returns events.length
FlushAppendOk ==
    \E f \in flights :
        /\ storage' = storage \o f.snapshot
        /\ logExists' = TRUE
        /\ flights' = flights \ {f}
        /\ shutdownState' = IF f.kind = "shutdown" THEN "resolved" ELSE shutdownState
        /\ lastOp' = [op |-> "flushed", kind |-> f.kind, snapshot |-> f.snapshot,
                      since |-> f.since, overlapped |-> f.overlapped,
                      result |-> Len(f.snapshot)]
        /\ UNCHANGED <<notTelVars, buffer, enabled, bufferSize, flushTimer, cloudProjectId,
                       nextId, shutdownPre, syncs>>

\* telemetry.ts:343-347: mkdir or appendFile rejects: the snapshot is merged
\* back and the error is rethrown to the caller of flush(), where record()
\* and the timer catch and log it
FlushFail ==
    \E f \in flights :
        /\ buffer' = MergeBack(f.snapshot, buffer)
        /\ flights' = flights \ {f}
        /\ shutdownState' = IF f.kind = "shutdown" THEN "rejected" ELSE shutdownState
        /\ lastOp' = [op |-> "flushFailed", kind |-> f.kind, snapshot |-> f.snapshot,
                      since |-> f.since, overlapped |-> f.overlapped,
                      result |-> -1, caught |-> f.kind \in CatchingCallers]
        /\ UNCHANGED <<notTelVars, enabled, bufferSize, flushTimer, cloudProjectId, storage, logExists, syncs,
                       nextId, shutdownPre>>

-----------------------------------------------------------------------------
(* TelemetryCollector: the read side of the durable log *)

\* a line of the log that is not valid JSON, as an append cut short leaves it
TornLine == [id |-> 0, synced |-> FALSE]

\* the kinds of line an earlier session of the collector can have left
LineKinds == {"synced", "unsynced", "torn"}

\* the log whose k-th line is of kind kinds[k]; the event of line k has id k
LogOf(kinds) ==
    [k \in 1..Len(kinds) |->
        IF kinds[k] = "torn" THEN TornLine
        ELSE [id |-> k, synced |-> kinds[k] = "synced"]]

RECURSIVE KindSeqs(_)
KindSeqs(n) ==
    IF n = 0 THEN {<<>>}
    ELSE LET shorter == KindSeqs(n - 1)
         IN shorter \cup {Append(q, x) : q \in shorter, x \in LineKinds}

\* the logs found at storagePath when the collector is constructed
PriorLogs == {LogOf(kinds) : kinds \in KindSeqs(MaxLogged)}

\* readEvents() and readEvents(n)
NoLimit == [given |-> FALSE, n |-> 0]
Limit(n) == [given |-> TRUE, n |-> n]

\* Array.prototype.slice(-n) for n > 0
SliceLast(s, n) == IF n >= Len(s) THEN s ELSE SubSeq(s, Len(s) - n + 1, Len(s))

\* telemetry.ts:390-406: readEvents(limit).  A missing file (ENOENT) gives no
\* events; JSON.parse throws on a line that is not JSON and the error is
\* rethrown; if (limit) takes a limit of 0 as no limit.
readEvents(exists, lines, limit) ==
    IF ~exists THEN [threw |-> FALSE, events |-> <<>>]
    ELSE IF \E k \in DOMAIN lines : lines[k] = TornLine
    THEN [threw |-> TRUE, events |-> <<>>]
    ELSE IF limit.given /\ limit.n # 0
    THEN [threw |-> FALSE, events |-> SliceLast(lines, limit.n)]
    ELSE [threw |-> FALSE, events |-> lines]

\* telemetry.ts:360-363: the syncToCloud stub delivers nothing and resolves,
\* whether or not the remote can be reached
syncToCloud(events, remoteUp) == "resolved"

\* telemetry.ts:374 without the filter
UnsyncedUnfiltered(events) == events

\* events.filter(e => !e.synced)
Unsynced(events) == SelectSeq(events, LAMBDA e : ~e.synced)

\* the collector constructed over the log of earlier sessions
InitLog ==
    /\ buffer = <<>>
    /\ enabled = TRUE
    /\ bufferSize = 1
    /\ flushTimer = FALSE
    /\ cloudProjectId \in BOOLEAN
    /\ storage \in PriorLogs
    /\ logExists \in {TRUE, storage # <<>>}
    /\ syncs = {}
    /\ flights = {}
    /\ nextId = Len(storage) + 1
    /\ shutdownState = "none"
    /\ shutdownPre = 0
    /\ lastOp = NoOp

\* telemetry.ts:390-406: a call of readEvents
ReadEvents ==
    \E limit \in {NoLimit} \cup {Limit(n) : n \in 0..MaxLimit} :
        /\ lastOp' = [op |-> "read", limit |-> limit,
                      out |-> readEvents(logExists, storage, limit)]
        /\ UNCHANGED <<notTelVars, buffer, enabled, bufferSize, flushTimer, cloudProjectId,
                       storage, logExists, syncs, flights, nextId, shutdownState,
                       shutdownPre>>

\* what a call of syncAllToCloud that ended without writing reports
SyncEnded(op, count, before, remoteUp) ==
    [op |-> op, result |-> count, before |-> before, wrote |-> FALSE,
     remoteUp |-> remoteUp]

\* telemetry.ts:368-386: syncAllToCloud() from the log r that readEvents
\* returned, up to its await of writeFile
SyncFrom(r, remoteUp) ==
    IF r.threw \/ ~cloudProjectId
    THEN /\ lastOp' = SyncEnded("syncFailed", -1, storage, remoteUp)
         /\ UNCHANGED syncs
    ELSE IF Unsynced(r.events) = <<>>
    THEN /\ lastOp' = SyncEnded("synced", 0, storage, remoteUp)
         /\ UNCHANGED syncs
    ELSE IF syncToCloud(Unsynced(r.events), remoteUp) = "rejected"
    THEN /\ lastOp' = SyncEnded("syncFailed", -1, storage, remoteUp)
         /\ UNCHANGED syncs
    ELSE /\ syncs' = syncs \cup {[events |-> MarkSynced(r.events),
                                   count |-> Len(Unsynced(r.events)),
                                   before |-> storage,
                                   remoteUp |-> remoteUp]}
         /\ lastOp' = NoOp

\* telemetry.ts:368-386: a call of syncAllToCloud; remoteUp tells whether the
\* remote can be reached during the call
SyncAllToCloud ==
    \E remoteUp \in BOOLEAN :
        /\ syncs = {}
        /\ SyncFrom(readEvents(logExists, storage, NoLimit), remoteUp)
        /\ UNCHANGED <<notTelVars, buffer, enabled, bufferSize, flushTimer, cloudProjectId,
                       storage, logExists, flights, nextId, shutdownState, shutdownPre>>

\* telemetry.ts:384-388: writeFile completes: the file holds the lines of the
\* events read, all marked synced, in place of the content it had (replaced),
\* and the call returns the number selected
SyncWrite ==
    \E f \in syncs :
        /\ storage' = f.events
        /\ logExists' = TRUE
        /\ syncs' = syncs \ {f}
        /\ lastOp' = [op |-> "synced", result |-> f.count, before |-> f.before,
                      wrote |-> TRUE, remoteUp |-> f.remoteUp, replaced |-> storage]
        /\ UNCHANGED <<notTelVars, buffer, enabled, bufferSize, flushTimer, cloudProjectId,
                       flights, nextId, shutdownState, shutdownPre>>

-----------------------------------------------------------------------------
(* SecretsMonitor: strings are sequences of one-character strings; offsets   *)
(* are 0-based as in the source.                                             *)

Min(a, b) == IF a <= b THEN a ELSE b
Max(a, b) == IF a >= b THEN a ELSE b

\* String.prototype.repeat
Repeat(c, n) == [k \in 1..n |-> c]

\* String.prototype.slice(a, b) for a, b >= 0
Slice(s, a, b) ==
    LET lo == Min(a, Len(s))
        hi == Min(b, Len(s))
    IN IF lo < hi THEN SubSeq(s, lo + 1, hi) ELSE <<>>

\* String.prototype.slice(a)
SliceFrom(s, a) == Slice(s, a, Len(s))

\* String.prototype.includes for a non-empty value
Includes(text, value) ==
    \E s \in 0..(Len(text) - Len(value)) : SubSeq(text, s + 1, s + Len(value)) = value

\* String.prototype.indexOf
IndexOf(text, value) ==
    IF Includes(text, value)
    THEN CHOOSE s \in 0..(Len(text) - Len(value)) :
            /\ SubSeq(text, s + 1, s + Len(value)) = value
            /\ \A t \in 0..(s - 1) : SubSeq(text, t + 1, t + Len(value)) # value
    ELSE -1

(* The characters of the model.  An ASCII character is one byte and is the   *)
(* same token as a byte and as a character; "0xFF" is a byte that is not     *)
(* valid UTF-8; "U+FFFD" is the replacement character, whose UTF-8 encoding  *)
(* is the bytes 0xEF 0xBF 0xBD.                                              *)
LowerSeq == <<"a", "d", "e", "h", "i", "k", "n", "o", "p", "r", "s", "t", "u", "w", "x">>
UpperSeq == <<"A", "D", "E", "H", "I", "K", "N", "O", "P", "R", "S", "T", "U", "W", "X">>
Letters == {LowerSeq[i] : i \in 1..Len(LowerSeq)} \cup {UpperSeq[i] : i \in 1..Len(UpperSeq)}
Digits == {"0", "1", "2", "3", "4", "5", "6", "7", "8", "9"}
Alnum == Letters \cup Digits
Quote == {"'", "\""}
WhiteSpace == {" ", "\n", "\r", "\t"}
Punct == {"=", ":", "*", ".", "[", "]", "\\", "-", "_"}
ReplacementChar == "U+FFFD"
NonAsciiBytes == {"0xFF", "0xEF", "0xBF", "0xBD"}
Chars == Alnum \cup Quote \cup WhiteSpace \cup Punct \cup {ReplacementChar}

\* the index of the first element of s that is in set, or 0
FirstIn(s, set) ==
    IF \E i \in 1..Len(s) : s[i] \in set
    THEN CHOOSE i \in 1..Len(s) : s[i] \in set /\ \A j \in 1..(i - 1) : s[j] \notin set
    ELSE 0

\* Buffer.prototype.toString('utf8'): ASCII bytes decode to themselves, the
\* bytes 0xEF 0xBF 0xBD to the replacement character, and a byte that is not
\* valid UTF-8 to the replacement character
RECURSIVE Utf8Decode(_)
Utf8Decode(b) ==
    LET i == FirstIn(b, NonAsciiBytes)
    IN IF i = 0 THEN b
       ELSE IF i + 2 <= Len(b) /\ b[i] = "0xEF" /\ b[i + 1] = "0xBF" /\ b[i + 2] = "0xBD"
            THEN SubSeq(b, 1, i - 1) \o <<ReplacementChar>>
                 \o Utf8Decode(SubSeq(b, i + 3, Len(b)))
            ELSE SubSeq(b, 1, i - 1) \o <<ReplacementChar>>
                 \o Utf8Decode(SubSeq(b, i + 1, Len(b)))

\* Buffer.from(text, 'utf8')
RECURSIVE Utf8Encode(_)
Utf8Encode(t) ==
    LET i == FirstIn(t, {ReplacementChar})
    IN IF i = 0 THEN t
       ELSE SubSeq(t, 1, i - 1) \o <<"0xEF", "0xBF", "0xBD">>
            \o Utf8Encode(SubSeq(t, i + 1, Len(t)))

(* Regular expressions of the shape the source uses: a concatenation of       *)
(* character classes, each with a greedy quantifier {min,max}; max = -1 is    *)
(* unbounded.  The flags are gi: classes hold both cases of a letter.         *)

CaseFold(c) ==
    {c} \cup {UpperSeq[i] : i \in {j \in 1..Len(LowerSeq) : LowerSeq[j] = c}}
        \cup {LowerSeq[i] : i \in {j \in 1..Len(UpperSeq) : UpperSeq[j] = c}}

Lit(c) == [cls |-> CaseFold(c), min |-> 1, max |-> 1]

Word(w) == [k \in 1..Len(w) |-> Lit(w[k])]

\* the length of the longest run of at most limit characters of cls at pos
RunLen(cls, text, pos, limit) ==
    CHOOSE k \in 0..limit :
        /\ \A j \in 1..k : text[pos + j] \in cls
        /\ k = limit \/ text[pos + k + 1] \notin cls

\* the end of the match of elems[i..] at pos, or -1: the quantifier is greedy
\* and backtracks, so the longest run whose rest matches is taken
RECURSIVE MatchEnd(_, _, _, _)
MatchEnd(elems, i, text, pos) ==
    IF i > Len(elems) THEN pos
    ELSE LET e     == elems[i]
             avail == Len(text) - pos
             limit == IF e.max = -1 THEN avail ELSE Min(e.max, avail)
             run   == RunLen(e.cls, text, pos, limit)
             ends  == {<<k, MatchEnd(elems, i + 1, text, pos + k)>> : k \in e.min..run}
             ok    == {p \in ends : p[2] # -1}
         IN IF ok = {} THEN -1
            ELSE (CHOOSE p \in ok : \A q \in ok : q[1] <= p[1])[2]

\* RegExp.prototype.exec with the g flag: the leftmost match at or after
\* lastIndex; index = -1 stands for null
Exec(elems, text, lastIndex) ==
    LET starts == {s \in lastIndex..Len(text) : MatchEnd(elems, 1, text, s) # -1}
    IN IF starts = {}
       THEN [index |-> -1, end |-> -1]
       ELSE LET s == CHOOSE x \in starts : \A y \in starts : x <= y
            IN [index |-> s, end |-> MatchEnd(elems, 1, text, s)]

\* part_003:62  /AKIA[0-9A-Z]{16}/gi
AwsAccessKeyId == Word(<<"A", "K", "I", "A">>) \o <<[cls |-> Alnum, min |-> 16, max |-> 16]>>

\* part_003:73  /['"]?password['"]?\s*[:=]\s*['"][^'"]{8,}['"]/gi
GenericPassword ==
    <<[cls |-> Quote, min |-> 0, max |-> 1]>>
    \o Word(<<"p", "a", "s", "s", "w", "o", "r", "d">>)
    \o <<[cls |-> Quote, min |-> 0, max |-> 1],
         [cls |-> WhiteSpace, min |-> 0, max |-> -1],
         [cls |-> {":", "="}, min |-> 1, max |-> 1],
         [cls |-> WhiteSpace, min |-> 0, max |-> -1],
         [cls |-> Quote, min |-> 1, max |-> 1],
         [cls |-> Chars \ Quote, min |-> 8, max |-> -1],
         [cls |-> Quote, min |-> 1, max |-> 1]>>

\* part_003:52-74: the default patterns, of which the model keeps the AWS
\* access key id and the generic password, in the source's order
DEFAULT_NAMED_PATTERNS ==
    <<[name |-> "AWS Access Key ID", pattern |-> AwsAccessKeyId, severity |-> "critical"],
      [name |-> "Generic Password", pattern |-> GenericPassword, severity |-> "medium"]>>

\* part_003:261-262, 273, 115
ContextBefore == 20
ContextAfter == 20
MaxAsterisks == 16
MinTrackedLength == 8

\* part_003:282: snippet.replace(/\n/g, '\\n').replace(/\r/g, '\\r')
RECURSIVE Escape(_)
Escape(t) ==
    LET i == FirstIn(t, {"\n", "\r"})
    IN IF i = 0 THEN t
       ELSE SubSeq(t, 1, i - 1) \o <<"\\", IF t[i] = "\n" THEN "n" ELSE "r">>
            \o Escape(SubSeq(t, i + 1, Len(t)))

Ellipsis == <<".", ".", ".">>

\* part_003:260-283
createRedactedSnippet(text, start, length) ==
    LET snippetStart  == Max(0, start - ContextBefore)
        snippetEnd    == Min(Len(text), start + length + ContextAfter)
        snippet       == Slice(text, snippetStart, snippetEnd)
        relativeStart == start - snippetStart
        beforeMatch   == Slice(snippet, 0, relativeStart)
        afterMatch    == SliceFrom(snippet, relativeStart + length)
        redacted      == Repeat("*", Min(length, MaxAsterisks))
        s1            == beforeMatch \o redacted \o afterMatch
        s2            == IF snippetStart > 0 THEN Ellipsis \o s1 ELSE s1
        s3            == IF snippetEnd < Len(text) THEN s2 \o Ellipsis ELSE s2
    IN Escape(s3)

\* part_003:157-176: the exec loop of one pattern from lastIndex on
RECURSIVE ScanPattern(_, _, _)
ScanPattern(p, text, lastIndex) ==
    LET m == Exec(p.pattern, text, lastIndex)
    IN IF m.index = -1 THEN <<>>
       ELSE <<[patternName     |-> p.name,
               start           |-> m.index,
               end             |-> m.end,
               redactedSnippet |-> createRedactedSnippet(text, m.index, m.end - m.index),
               matchedText     |-> Slice(text, m.index, m.end),
               severity        |-> p.severity,
               envVar          |-> ""]>>
            \o ScanPattern(p, text, m.end)

\* part_003:152-177: every pattern in order, lastIndex reset to 0
RECURSIVE ScanPatterns(_, _, _)
ScanPatterns(ps, i, text) ==
    IF i > Len(ps) THEN <<>>
    ELSE ScanPattern(ps[i], text, 0) \o ScanPatterns(ps, i + 1, text)

\* part_003:180-201: every tracked value in Map order, first occurrence only
RECURSIVE ScanTracked(_, _, _)
ScanTracked(tracked, i, text) ==
    IF i > Len(tracked) THEN <<>>
    ELSE (IF Includes(text, tracked[i].value)
          THEN LET index == IndexOf(text, tracked[i].value)
               IN <<[patternName     |-> "ENV:" \o tracked[i].name,
                     start           |-> index,
                     end             |-> index + Len(tracked[i].value),
                     redactedSnippet |-> createRedactedSnippet(text, index, Len(tracked[i].value)),
                     matchedText     |-> tracked[i].value,
                     severity        |-> "critical",
                     envVar          |-> tracked[i].name]>>
          ELSE <<>>)
         \o ScanTracked(tracked, i + 1, text)

\* part_003:145-209: scan of a Buffer
scan(data, en, tracked) ==
    IF ~en THEN <<>>
    ELSE LET text == Utf8Decode(data)
         IN ScanPatterns(DEFAULT_NAMED_PATTERNS, 1, text) \o ScanTracked(tracked, 1, text)

\* part_003:171-175, 194-199 and telemetry.ts:235-249: the secret_exposure
\* event recorded for a match
ExposureEvent(m) ==
    [type |-> "secret_exposure", severity |-> "critical",
     patternName |-> m.patternName, snippet |-> m.redactedSnippet, envVar |-> m.envVar]

\* part_003:246: [...matches].sort((a, b) => b.start - a.start), a stable sort
RECURSIVE InsertDesc(_, _, _)
InsertDesc(m, sorted, i) ==
    IF i > Len(sorted) \/ sorted[i].start < m.start
    THEN SubSeq(sorted, 1, i - 1) \o <<m>> \o SubSeq(sorted, i, Len(sorted))
    ELSE InsertDesc(m, sorted, i + 1)

RECURSIVE SortFrom(_, _, _)
SortFrom(ms, i, sorted) ==
    IF i > Len(ms) THEN sorted
    ELSE SortFrom(ms, i + 1, InsertDesc(ms[i], sorted, 1))

sortedMatches(ms) == SortFrom(ms, 1, <<>>)

\* part_003:248-252: the splices, in the order of the sorted matches
RECURSIVE Splice(_, _, _, _)
Splice(text, sorted, i, rtext) ==
    IF i > Len(sorted) THEN text
    ELSE Splice(Slice(text, 0, sorted[i].start) \o rtext \o SliceFrom(text, sorted[i].end),
                sorted, i + 1, rtext)

\* part_003:242-255
redactMatches(data, ms, rtext) ==
    Utf8Encode(Splice(Utf8Decode(data), sortedMatches(ms), 1, rtext))

Forward(data) == [null |-> FALSE, data |-> data]
Suppress == [null |-> TRUE, data |-> <<>>]

\* part_003:227-236 with the detect case re-encoding the scanned text
transformDetectReencodes(data, ms, m, rtext) ==
    IF ms = <<>> THEN Forward(data)
    ELSE IF m = "detect" THEN Forward(Utf8Encode(Utf8Decode(data)))
         ELSE IF m = "redact" THEN Forward(redactMatches(data, ms, rtext))
              ELSE Suppress

\* part_003:227-236 with the block case forwarding the chunk
transformBlockForwards(data, ms, m, rtext) ==
    IF ms = <<>> THEN Forward(data)
    ELSE IF m = "detect" THEN Forward(data)
         ELSE IF m = "redact" THEN Forward(redactMatches(data, ms, rtext))
              ELSE Forward(data)

\* part_003:223-236: what transform returns for the matches of its scan
transformResult(data, ms, m, rtext) ==
    IF ms = <<>> THEN Forward(data)
    ELSE IF m = "detect" THEN Forward(data)
         ELSE IF m = "redact" THEN Forward(redactMatches(data, ms, rtext))
              ELSE Suppress

(* The chunks of the model: concatenations of at most MaxBlocks blocks.      *)
SecretValue == <<"h", "u", "n", "t", "e", "r", "2", "2">>
ShortValue == <<"h", "u", "n", "t", "e", "r", "2">>
AwsKey == <<"A", "K", "I", "A">> \o Repeat("0", 16)
PasswordAssignment ==
    <<"p", "a", "s", "s", "w", "o", "r", "d", "=", "'">> \o SecretValue \o <<"'">>

\* a filler longer than the snippet's context, starting with a line break
Filler == <<"\n">> \o Repeat("x", ContextBefore)

Blocks == {<<" ">>, <<"0xFF">>, Filler, SecretValue, AwsKey, PasswordAssignment}

RECURSIVE ChunksOf(_)
ChunksOf(n) ==
    IF n = 0 THEN {<<>>}
    ELSE LET shorter == ChunksOf(n - 1)
         IN shorter \cup {c \o b : c \in shorter, b \in Blocks}

Chunks == ChunksOf(MaxBlocks)

Modes == {"detect", "redact", "block"}

NoOutput == [null |-> FALSE, data |-> <<"-">>]

\* Map.prototype.set: a new key goes last, a known key keeps its place
MapSet(tracked, name, value) ==
    IF \E i \in 1..Len(tracked) : tracked[i].name = name
    THEN [i \in 1..Len(tracked) |->
             IF tracked[i].name = name THEN [name |-> name, value |-> value]
             ELSE tracked[i]]
    ELSE Append(tracked, [name |-> name, value |-> value])

\* part_003:288-293 without the test of the value's length
trackedAfterAnyLength(tracked, name, value) == MapSet(tracked, name, value)

\* part_003:288-293: trackEnvVar(name, value) with a non-empty value
trackedAfter(tracked, name, value) ==
    IF Len(value) >= MinTrackedLength THEN MapSet(tracked, name, value) ELSE tracked

\* the tracked-value maps the monitor of the model can hold
TrackedConfigs == {<<>>, trackedAfter(<<>>, "DB_PASS", SecretValue)}

\* scan, tabulated once over the chunks and tracked-value maps of the model
ScanTable == [c \in Chunks |-> [t \in TrackedConfigs |-> scan(c, TRUE, t)]]

\* scan given the end of the stream so far and not the chunk alone
scanOfStreamSoFar(data, en, tracked) == scan(chunk \o data, en, tracked)

\* part_003:145-209: the value of scan(data)
scanOf(data, en, tracked) ==
    IF en /\ data \in Chunks /\ tracked \in TrackedConfigs
    THEN ScanTable[data][tracked]
    ELSE scan(data, en, tracked)

\* what the Transform's callback was given
NotForwarded == [called |-> FALSE, null |-> FALSE, data |-> <<>>]
Called(r) == [called |-> TRUE, null |-> r.null, data |-> r.data]

\* the history of the last write is forgotten
ClearPipeHistory ==
    /\ pipeChunk' = <<>>
    /\ forwarded' = NotForwarded
    /\ transformCalls' = <<>>
    /\ observerCalls' = <<>>
    /\ pipeOp' = "none"

\* part_003:91-119: the constructor (the tracked variables of the
\* configuration are added as trackEnvVar adds them), and the chunk the
\* monitor is given
InitScan ==
    /\ mode \in Modes
    /\ secretsEnabled \in BOOLEAN
    /\ redactText = <<"[", "X", "]">>
    /\ trackedEnvValues \in TrackedConfigs
    /\ chunk \in Chunks
    /\ matches = <<>>
    /\ exposures = <<>>
    /\ output = NoOutput
    /\ scanOp = "none"

\* part_003:131-133
SetMode ==
    \E m \in Modes \ {mode} :
        /\ mode' = m
        /\ matches' = <<>> /\ exposures' = <<>> /\ output' = NoOutput /\ scanOp' = "none"
        /\ ClearPipeHistory
        /\ UNCHANGED <<notScanVars, pipeConfig, secretsEnabled, redactText, trackedEnvValues, chunk>>

\* part_003:288-293: trackEnvVar(name, value)
TrackEnvVar ==
    \E value \in {SecretValue, ShortValue} :
        /\ trackedEnvValues' = trackedAfter(trackedEnvValues, "DB_PASS", value)
        /\ matches' = <<>> /\ exposures' = <<>> /\ output' = NoOutput /\ scanOp' = "none"
        /\ ClearPipeHistory
        /\ UNCHANGED <<notScanVars, pipeConfig, mode, secretsEnabled, redactText, chunk>>

\* part_003:145-209: scan(chunk)
Scan ==
    /\ \E ms \in {scanOf(chunk, secretsEnabled, trackedEnvValues)} :
       /\ matches' = ms
       /\ exposures' = [k \in 1..Len(ms) |-> ExposureEvent(ms[k])]
    /\ output' = NoOutput
    /\ scanOp' = "scan"
    /\ ClearPipeHistory
    /\ UNCHANGED <<notScanVars, pipeConfig, mode, secretsEnabled, redactText, trackedEnvValues, chunk>>

\* part_003:218-237: transform(chunk)
Transform ==
    /\ IF ~secretsEnabled
       THEN /\ output' = Forward(chunk)
            /\ matches' = <<>>
            /\ exposures' = <<>>
       ELSE \E ms \in {scanOf(chunk, secretsEnabled, trackedEnvValues)} :
            /\ matches' = ms
            /\ exposures' = [k \in 1..Len(ms) |-> ExposureEvent(ms[k])]
            /\ output' = transformResult(chunk, ms, mode, redactText)
    /\ scanOp' = "transform"
    /\ ClearPipeHistory
    /\ UNCHANGED <<notScanVars, pipeConfig, mode, secretsEnabled, redactText, trackedEnvValues, chunk>>

-----------------------------------------------------------------------------
(* The monitor on a stream: scan is called once for every chunk, in order   *)
(* (part_003:145-209, called from transform for each write, :299-313).      *)

\* the two pieces a value is cut into at offset k
Pieces(value, k) == {Slice(value, 0, k), SliceFrom(value, k)}

\* the chunks of the stream: whole secrets, and secrets cut in two
StreamChunks ==
    {<<" ">>, SecretValue, AwsKey, PasswordAssignment}
        \cup Pieces(SecretValue, 4) \cup Pieces(AwsKey, 10)
        \cup Pieces(PasswordAssignment, 10) \cup Pieces(PasswordAssignment, 14)

InitStream ==
    /\ mode = "detect"
    /\ secretsEnabled \in BOOLEAN
    /\ redactText = <<"[", "X", "]">>
    /\ trackedEnvValues \in TrackedConfigs
    /\ chunk = <<>>
    /\ matches = <<>>
    /\ exposures = <<>>
    /\ output = NoOutput
    /\ scanOp = "none"
    /\ prevChunk = <<>>
    /\ prevMatches = <<>>

\* part_003:145-209: scan of the next chunk of the stream
ScanNext ==
    \E c \in StreamChunks :
        /\ \E ms \in {scanOf(c, secretsEnabled, trackedEnvValues)} :
           /\ matches' = ms
           /\ exposures' = [k \in 1..Len(ms) |-> ExposureEvent(ms[k])]
        /\ chunk' = c
        /\ prevChunk' = chunk
        /\ prevMatches' = matches
        /\ output' = NoOutput
        /\ scanOp' = "scan"
        /\ ClearPipeHistory
        /\ UNCHANGED <<telVars, runVars, envVars, sharedVars, signalVars, pipeConfig, mode, secretsEnabled,
                       redactText, trackedEnvValues>>

-----------------------------------------------------------------------------
(* HookManager (src/src/hooks.ts): the stream side.  A hook is modelled by   *)
(* what it does when called: a transform hook returns a new buffer          *)
(* ("replace"), null ("null"), undefined ("undefined"), or throws ("throw");*)
(* an observer returns ("observe") or throws ("throw"); "monitor" is the    *)
(* hook the SecretsMonitor registered.                                      *)

TransformKinds == {"replace", "null", "undefined", "throw"}
ObserverKinds == {"observe", "throw"}

\* the chunks written to the stream of a HookManager with hooks of its own
HookChunks == {<<"a">>, <<"b", "c">>}

\* the buffer a "replace" hook returns for its input
Replaced(data) == <<"#">> \o data

\* the monitor a "monitor" hook closes over (part_003:299-313)
Monitor ==
    [mode |-> mode, enabled |-> secretsEnabled,
     tracked |-> trackedEnvValues, rtext |-> redactText]

\* what a transform hook returned: ret is "buffer" | "null" | "undefined" |
\* "throw"; ms are the matches the monitor's scan found in the call
Returned(r, ms) ==
    IF r.null THEN [ret |-> "null", data |-> <<>>, ms |-> ms]
    ELSE [ret |-> "buffer", data |-> r.data, ms |-> ms]

\* part_003:223-236: transform from the result of its scan on
MonitorTransformed(data, ms, mon) == Returned(transformResult(data, ms, mon.mode, mon.rtext), ms)

\* part_003:299-303 and 218-237: the call of one transform hook
CallTransform(kind, data, mon) ==
    IF kind = "monitor"
    THEN IF ~mon.enabled THEN Returned(Forward(data), <<>>)
         ELSE MonitorTransformed(data, scanOf(data, mon.enabled, mon.tracked), mon)
    ELSE IF kind = "replace" THEN Returned(Forward(Replaced(data)), <<>>)
    ELSE [ret |-> kind, data |-> <<>>, ms |-> <<>>]

\* hooks.ts:207-212 with a null return left unhandled
NextValueIgnoresNull(cur, r) ==
    IF r.ret = "buffer" THEN Forward(r.data) ELSE cur

\* hooks.ts:207-212: the current value after a hook returned r
NextValue(cur, r) ==
    IF r.ret = "null" THEN Suppress
    ELSE IF r.ret = "buffer" THEN Forward(r.data)
    ELSE cur

\* the calls and matches of one hook put in front of those of the later hooks
Prepend(call, ms, rest) ==
    [threw  |-> rest.threw,
     result |-> rest.result,
     calls  |-> <<call>> \o rest.calls,
     ms     |-> ms \o rest.ms]

RECURSIVE ApplyFrom(_, _, _, _)

\* hooks.ts:206-212: transform hook i has been called on cur and ended as r
ApplyStep(hooks, i, cur, mon, r) ==
    IF r.ret = "throw"
    THEN [threw |-> TRUE, result |-> cur, calls |-> <<<<i, cur.data>>>>, ms |-> <<>>]
    ELSE Prepend(<<i, cur.data>>, r.ms, ApplyFrom(hooks, i + 1, NextValue(cur, r), mon))

\* hooks.ts:203-213: the loop of applyTransforms from hook i on, cur being the
\* current value; threw: a hook threw and the exception left the loop
ApplyFrom(hooks, i, cur, mon) ==
    IF i > Len(hooks) \/ cur.null
    THEN [threw |-> FALSE, result |-> cur, calls |-> <<>>, ms |-> <<>>]
    ELSE ApplyStep(hooks, i, cur, mon, CallTransform(hooks[i], cur.data, mon))

\* hooks.ts:197-216
applyTransforms(hooks, data, ctx, mon) ==
    IF ~ctx THEN [threw |-> FALSE, result |-> Forward(data), calls |-> <<>>, ms |-> <<>>]
    ELSE ApplyFrom(hooks, 1, Forward(data), mon)

\* part_003:309-313: what the call of observer kind finds
Observed(kind, data, mon) ==
    IF kind = "monitor" THEN scanOf(data, mon.enabled, mon.tracked) ELSE <<>>

\* the call of one observer put in front of those of the later observers
PrependObserved(call, ms, rest) ==
    [threw |-> rest.threw, calls |-> <<call>> \o rest.calls, ms |-> ms \o rest.ms]

\* hooks.ts:188-190: the loop of executeStream from observer i on
RECURSIVE ObserveFrom(_, _, _, _)
ObserveFrom(hooks, i, data, mon) ==
    IF i > Len(hooks) THEN [threw |-> FALSE, calls |-> <<>>, ms |-> <<>>]
    ELSE IF hooks[i] = "throw"
         THEN [threw |-> TRUE, calls |-> <<<<i, data>>>>, ms |-> <<>>]
         ELSE PrependObserved(<<i, data>>, Observed(hooks[i], data, mon),
                              ObserveFrom(hooks, i + 1, data, mon))

\* hooks.ts:184-191
executeStream(hooks, data, ctx, mon) ==
    IF ~ctx THEN [threw |-> FALSE, calls |-> <<>>, ms |-> <<>>]
    ELSE ObserveFrom(hooks, 1, data, mon)

\* hooks.ts:233-237: the callback is called with the transformed chunk, unless
\* an observer threw
AfterObservers(t, s) ==
    [threw          |-> s.threw,
     forwarded      |-> IF s.threw THEN NotForwarded ELSE Called(t.result),
     transformCalls |-> t.calls,
     observerCalls  |-> s.calls,
     ms             |-> t.ms \o s.ms]

\* hooks.ts:230: the observers are given the original chunk, unless a
\* transform hook threw
AfterTransforms(t, shooks, data, ctx, mon) ==
    IF t.threw
    THEN [threw |-> TRUE, forwarded |-> NotForwarded, transformCalls |-> t.calls,
          observerCalls |-> <<>>, ms |-> t.ms]
    ELSE AfterObservers(t, executeStream(shooks, data, ctx, mon))

\* hooks.ts:224-238: the transform function of the Transform.  An exception
\* of a hook leaves the function before the callback is called.
streamTransform(thooks, shooks, data, ctx, mon) ==
    AfterTransforms(applyTransforms(thooks, data, ctx, mon), shooks, data, ctx, mon)

\* hooks.ts:73-92: a new HookManager
InitHooks ==
    /\ hmContext = FALSE
    /\ transformHooks = <<>>
    /\ streamHooks = <<>>
    /\ pipeState = "open"
    /\ pipeChunk = <<>>
    /\ forwarded = NotForwarded
    /\ transformCalls = <<>>
    /\ observerCalls = <<>>
    /\ pipeOp = "none"

\* hooks.ts:102-105: on(stream, hook)
On ==
    \E kind \in ObserverKinds :
        /\ Len(streamHooks) < MaxHooks
        /\ streamHooks' = Append(streamHooks, kind)
        /\ ClearPipeHistory
        /\ UNCHANGED <<notHookVars, scanVars, hmContext, transformHooks, pipeState>>

\* hooks.ts:112-114: onTransform(stream, hook)
OnTransform ==
    \E kind \in TransformKinds :
        /\ Len(transformHooks) < MaxHooks
        /\ transformHooks' = Append(transformHooks, kind)
        /\ ClearPipeHistory
        /\ UNCHANGED <<notHookVars, scanVars, hmContext, streamHooks, pipeState>>

\* hooks.ts:140-149: createContext
CreateContext ==
    /\ ~hmContext
    /\ hmContext' = TRUE
    /\ ClearPipeHistory
    /\ UNCHANGED <<notHookVars, scanVars, transformHooks, streamHooks, pipeState>>

\* hooks.ts:222-240: a chunk is written to the Transform.  When a hook throws
\* the callback is never called: the write never completes and the Transform
\* takes no further chunk.
Write(data) ==
    /\ pipeState = "open"
    /\ \E r \in {streamTransform(transformHooks, streamHooks, data, hmContext, Monitor)} :
       /\ pipeChunk' = data
       /\ forwarded' = r.forwarded
       /\ transformCalls' = r.transformCalls
       /\ observerCalls' = r.observerCalls
       /\ pipeState' = IF r.threw THEN "stalled" ELSE "open"
       /\ matches' = r.ms
       /\ exposures' = [k \in 1..Len(r.ms) |-> ExposureEvent(r.ms[k])]
    /\ pipeOp' = "write"
    /\ UNCHANGED <<notHookVars, hmContext, transformHooks, streamHooks,
                   mode, secretsEnabled, redactText, trackedEnvValues, chunk>>

\* a chunk of the child's output arrives at a pipeline with hooks of its own
StreamChunk ==
    \E data \in HookChunks :
        /\ Write(data)
        /\ UNCHANGED <<output, scanOp>>

\* part_003:319-329: registerHooks(hookManager) on a HookManager without hooks
RegisterHooks ==
    /\ transformHooks = <<>> /\ streamHooks = <<>>
    /\ IF mode = "detect"
       THEN streamHooks' = Append(streamHooks, "monitor") /\ UNCHANGED transformHooks
       ELSE transformHooks' = Append(transformHooks, "monitor") /\ UNCHANGED streamHooks
    /\ matches' = <<>> /\ exposures' = <<>> /\ output' = NoOutput /\ scanOp' = "none"
    /\ ClearPipeHistory
    /\ UNCHANGED <<notScanVars, hmContext, pipeState,
                   mode, secretsEnabled, redactText, trackedEnvValues, chunk>>

\* the chunk arrives at the pipeline the monitor registered its hooks on
PipelineChunk ==
    /\ Write(chunk)
    /\ output' = NoOutput
    /\ scanOp' = "pipeline"

\* ci-output.ts:363 and 427: the pipeline of a run, its context created
PipelineReady ==
    /\ hmContext = TRUE
    /\ transformHooks = <<>>
    /\ streamHooks = <<>>
    /\ pipeState = "open"
    /\ pipeChunk = <<>>
    /\ forwarded = NotForwarded
    /\ transformCalls = <<>>
    /\ observerCalls = <<>>
    /\ pipeOp = "none"

-----------------------------------------------------------------------------
(* run() (src/src/core/ci-output.ts:353-497).  run() and its event handlers *)
(* are asynchronous functions: each is a thread that is suspended while a   *)
(* lifecycle hook it awaits is executing.  A lifecycle hook is modelled by  *)
(* how it ends: "ok" (its promise fulfils, after any time) or "throw".  An  *)
(* executeLifecycle without hooks is passed within the step that calls it.  *)

Milestones == {"beforeStart", "afterStart", "beforeStop", "afterStop"}
LifecycleKinds == {"ok", "throw"}
Threads == {"main", "afterStart", "error", "close"}

\* the sequences over S of length at most n
RECURSIVE SeqsUpTo(_, _)
SeqsUpTo(S, n) ==
    IF n = 0 THEN {<<>>}
    ELSE LET shorter == SeqsUpTo(S, n - 1)
         IN shorter \cup {Append(q, x) : q \in shorter, x \in S}

\* the position of a thread: awaiting hook i of milestone pc, or
\* "idle" | "ready" | "done" | "failed"
At(pc, i) == [pc |-> pc, i |-> i]
Idle == At("idle", 0)
Ready == At("ready", 0)
Done == At("done", 0)
Failed == At("failed", 0)

\* ci-output.ts:371, 456, 489-494: the promise of run()
Pending == [state |-> "pending", exitCode |-> 0, signal |-> "none", error |-> "none"]
Resolved(exitCode, signal) ==
    [state |-> "resolved", exitCode |-> exitCode, signal |-> signal, error |-> "none"]
Rejected(error) ==
    [state |-> "rejected", exitCode |-> 0, signal |-> "none", error |-> error]

\* resolve and reject have no effect on a settled promise
Settled(r, outcome) == IF r.state = "pending" THEN outcome ELSE r

\* ci-output.ts:334 without SIGHUP
ForwardedWithoutSighup == {"SIGINT", "SIGTERM"}

\* ci-output.ts:334
FORWARDED_SIGNALS == {"SIGINT", "SIGTERM", "SIGHUP"}

\* the signals the model delivers to the parent process
ParentSignals == {"SIGINT", "SIGTERM", "SIGHUP"}

NoSignal == [sig |-> "none", child |-> "none", forwarded |-> "none"]

\* the record of the last signal is kept until the next step of the run
ForgetSignal == lastSignal' = NoSignal

\* the code of a close event
NoCode == [null |-> TRUE, value |-> 0]
Code(n) == [null |-> FALSE, value |-> n]

\* the close event after a failed spawn carries the negative errno (ENOENT)
SpawnFailureCode == Code(-2)

\* the ways a running child can end: with a code, with neither a code nor a
\* signal reported, or killed by a signal the parent did not forward
ChildExits ==
    {[code |-> Code(n), signal |-> "none"] : n \in {0, 7}}
    \cup {[code |-> NoCode, signal |-> "none"]}
    \cup {[code |-> NoCode, signal |-> "SIGKILL"]}

\* ci-output.ts:470-481 with SIGTERM missing from signalCodes
ExitCodeOfWithoutSigterm(code, signal) ==
    IF signal # "none"
    THEN IF signal = "SIGINT" THEN 130
         ELSE IF signal = "SIGHUP" THEN 129
         ELSE 128
    ELSE IF code.null THEN 0 ELSE code.value

\* ci-output.ts:470-481
ExitCodeOf(code, signal) ==
    IF signal # "none"
    THEN IF signal = "SIGINT" THEN 130
         ELSE IF signal = "SIGTERM" THEN 143
         ELSE IF signal = "SIGHUP" THEN 129
         ELSE 128
    ELSE IF code.null THEN 0 ELSE code.value

\* hooks.ts:173-175: executeLifecycle(ev) has a hook to call
HasHooks(ev, ctx) == ctx /\ lifecycleHooks[ev] # <<>>

\* what run() leaves alone of its HookManager's stream side
runPipe == <<transformHooks, streamHooks, pipeState, pipeHistory>>

\* hooks registered on the HookManager before run() is called
InitRun ==
    /\ lifecycleHooks \in [Milestones -> SeqsUpTo(LifecycleKinds, MaxLifecycleHooks)]
    /\ threads = [t \in Threads |-> Idle]
    /\ child = "none"
    /\ childKill = "none"
    /\ closeCode = NoCode
    /\ closeSignal = "none"
    /\ signalHandlers = FALSE
    /\ result = Pending
    /\ runEvents = <<>>
    /\ hookLog = <<>>

\* the entries of hookLog: hook i of milestone ev, called from thread t,
\* starts, and the hook thread t awaits ends (returns or throws)
Started(t, ev, i) == [call |-> t, ev |-> ev, i |-> i, what |-> "start"]
Ended(t) == [call |-> t, ev |-> threads[t].pc, i |-> threads[t].i, what |-> "end"]

\* hooks.ts:176-178: thread t starts awaiting the first hook of ev
StartHooks(t, ev, log) ==
    /\ threads' = [threads EXCEPT ![t] = At(ev, 1)]
    /\ hookLog' = Append(log, Started(t, ev, 1))

\* hooks.ts:176-178 with the hooks called without awaiting: the next hook
\* starts while the one before it is still executing
NextHookNotAwaited(t) ==
    /\ threads' = [threads EXCEPT ![t] = At(threads[t].pc, threads[t].i + 1)]
    /\ hookLog' = Append(Append(hookLog, Started(t, threads[t].pc, threads[t].i + 1)),
                         Ended(t))

\* hooks.ts:176-178: the hook thread t awaits has ended, and the loop calls
\* the next hook of the milestone
NextHook(t) ==
    /\ threads' = [threads EXCEPT ![t] = At(threads[t].pc, threads[t].i + 1)]
    /\ hookLog' = Append(Append(hookLog, Ended(t)),
                         Started(t, threads[t].pc, threads[t].i + 1))

\* the hook thread t awaits has ended and no hook is called in its place
LastHookEnds(t) == hookLog' = Append(hookLog, Ended(t))

\* thread t is awaiting a hook of milestone ev, and the hook is of this kind
Awaiting(t, ev, kind) ==
    /\ threads[t].pc = ev
    /\ lifecycleHooks[ev][threads[t].i] = kind

IsLastHook(t) == threads[t].i = Len(lifecycleHooks[threads[t].pc])

\* ci-output.ts:358-369: run() up to the await of the beforeStart hooks
RunStart ==
    /\ threads["main"] = Idle
    /\ hmContext' = TRUE
    /\ runEvents' = Append(runEvents, "process_start")
    /\ IF HasHooks("beforeStart", TRUE)
       THEN StartHooks("main", "beforeStart", hookLog)
       ELSE threads' = [threads EXCEPT !["main"] = Ready] /\ UNCHANGED hookLog
    /\ ForgetSignal /\ UNCHANGED <<notRunVars, runPipe, lifecycleHooks, child, childKill, closeCode,
                   closeSignal, signalHandlers, result>>

\* ci-output.ts:369 with the failure of a beforeStart hook swallowed
BeforeStartHookEndsSwallowed ==
    /\ threads["main"].pc = "beforeStart"
    /\ IF Awaiting("main", "beforeStart", "throw") \/ IsLastHook("main")
       THEN threads' = [threads EXCEPT !["main"] = Ready] /\ LastHookEnds("main")
       ELSE NextHook("main")
    /\ ForgetSignal /\ UNCHANGED <<notRunVars, hookVars, lifecycleHooks, child, childKill, closeCode,
                   closeSignal, signalHandlers, runEvents, result>>

\* ci-output.ts:369 and hooks.ts:176-178: a beforeStart hook ends
BeforeStartHookEnds ==
    /\ threads["main"].pc = "beforeStart"
    /\ IF Awaiting("main", "beforeStart", "throw")
       THEN /\ threads' = [threads EXCEPT !["main"] = Failed]
            /\ result' = Settled(result, Rejected("beforeStart hook"))
            /\ LastHookEnds("main")
       ELSE IF IsLastHook("main")
            THEN /\ threads' = [threads EXCEPT !["main"] = Ready]
                 /\ LastHookEnds("main")
                 /\ UNCHANGED result
            ELSE NextHook("main") /\ UNCHANGED result
    /\ ForgetSignal /\ UNCHANGED <<notRunVars, hookVars, lifecycleHooks, child, childKill, closeCode,
                   closeSignal, signalHandlers, runEvents>>

\* ci-output.ts:371-457: the executor of the promise: spawn, signal
\* forwarding, the afterStart hooks started, the handlers attached
Spawn ==
    /\ threads["main"] = Ready
    /\ \E ok \in BOOLEAN : child' = IF ok THEN "running" ELSE "failed"
    /\ signalHandlers' = TRUE
    /\ IF HasHooks("afterStart", hmContext)
       THEN /\ threads' = [threads EXCEPT !["main"] = Done, !["afterStart"] = At("afterStart", 1)]
            /\ hookLog' = Append(hookLog, Started("afterStart", "afterStart", 1))
       ELSE /\ threads' = [threads EXCEPT !["main"] = Done, !["afterStart"] = Done]
            /\ UNCHANGED hookLog
    /\ ForgetSignal /\ UNCHANGED <<notRunVars, hookVars, lifecycleHooks, childKill, closeCode,
                   closeSignal, result, runEvents>>

\* ci-output.ts:439-441: an afterStart hook ends; a failure is caught and logged
AfterStartHookEnds ==
    /\ threads["afterStart"].pc = "afterStart"
    /\ IF Awaiting("afterStart", "afterStart", "throw") \/ IsLastHook("afterStart")
       THEN threads' = [threads EXCEPT !["afterStart"] = Done] /\ LastHookEnds("afterStart")
       ELSE NextHook("afterStart")
    /\ ForgetSignal /\ UNCHANGED <<notRunVars, hookVars, lifecycleHooks, child, childKill, closeCode,
                   closeSignal, signalHandlers, result, runEvents>>

\* ci-output.ts:402-413: a signal arrives at the parent process.  A
\* listener of this run exists for the signals of FORWARDED_SIGNALS from
\* setupSignalForwarding on, until cleanupSignalHandlers; it calls
\* child.kill(signal) if the child has a pid.  The child then ends with one
\* of the signals sent to it.
ParentSignal ==
    \E sig \in ParentSignals :
        /\ IF signalHandlers /\ sig \in FORWARDED_SIGNALS /\ child \in {"running", "closed"}
           THEN /\ lastSignal' = [sig |-> sig, child |-> child, forwarded |-> sig]
                /\ IF child = "running"
                   THEN childKill' \in (IF childKill = "none" THEN {sig} ELSE {childKill, sig})
                   ELSE UNCHANGED childKill
           ELSE /\ lastSignal' = [sig |-> sig, child |-> child, forwarded |-> "none"]
                /\ UNCHANGED childKill
        /\ UNCHANGED <<notRunVars, hookVars, lifecycleHooks, threads, child, closeCode,
                       closeSignal, signalHandlers, result, runEvents, hookLog>>

\* ci-output.ts:444-456: the child's error event (the spawn failed)
ChildError ==
    /\ child = "failed"
    /\ child' = "errored"
    /\ signalHandlers' = FALSE
    /\ runEvents' = Append(runEvents, "process_error")
    /\ IF HasHooks("afterStop", hmContext)
       THEN StartHooks("error", "afterStop", hookLog) /\ UNCHANGED result
       ELSE /\ threads' = [threads EXCEPT !["error"] = Done]
            /\ result' = Settled(result, Rejected("Failed to start command"))
            /\ UNCHANGED hookLog
    /\ ForgetSignal /\ UNCHANGED <<notRunVars, hookVars, lifecycleHooks, childKill, closeCode, closeSignal>>

\* ci-output.ts:454-456: an afterStop hook awaited by the error handler ends
ErrorHookEnds ==
    /\ threads["error"].pc = "afterStop"
    /\ IF Awaiting("error", "afterStop", "throw")
       THEN /\ threads' = [threads EXCEPT !["error"] = Failed]
            /\ LastHookEnds("error")
            /\ UNCHANGED result
       ELSE IF IsLastHook("error")
            THEN /\ threads' = [threads EXCEPT !["error"] = Done]
                 /\ result' = Settled(result, Rejected("Failed to start command"))
                 /\ LastHookEnds("error")
            ELSE NextHook("error") /\ UNCHANGED result
    /\ ForgetSignal /\ UNCHANGED <<notRunVars, hookVars, lifecycleHooks, child, childKill, closeCode,
                   closeSignal, signalHandlers, runEvents>>

\* ci-output.ts:469-494: the close handler from the end of the beforeStop
\* hooks, log being the trace of the hooks at that point
CloseAfterBeforeStop(code, signal, log) ==
    /\ runEvents' = Append(runEvents, "process_stop")
    /\ IF HasHooks("afterStop", hmContext)
       THEN StartHooks("close", "afterStop", log) /\ UNCHANGED result
       ELSE /\ threads' = [threads EXCEPT !["close"] = Done]
            /\ result' = Settled(result, Resolved(ExitCodeOf(code, signal), signal))
            /\ hookLog' = log

\* ci-output.ts:460-467 without the call of cleanupSignalHandlers at :461
ChildCloseKeepsHandlers ==
    /\ child \in {"running", "errored"}
    /\ \E e \in IF child = "errored" THEN {[code |-> SpawnFailureCode, signal |-> "none"]}
                ELSE IF childKill # "none" THEN {[code |-> NoCode, signal |-> childKill]}
                ELSE ChildExits :
          /\ closeCode' = e.code
          /\ closeSignal' = e.signal
          /\ IF HasHooks("beforeStop", hmContext)
             THEN StartHooks("close", "beforeStop", hookLog) /\ UNCHANGED <<result, runEvents>>
             ELSE CloseAfterBeforeStop(e.code, e.signal, hookLog)
    /\ child' = "closed"
    /\ ForgetSignal /\ UNCHANGED <<notRunVars, hookVars, lifecycleHooks, childKill, signalHandlers>>

\* ci-output.ts:460-467: the child's close event.  After a failed spawn it
\* follows the error event and carries the errno; a child killed through
\* child.kill closes with that signal.
ChildClose ==
    /\ child \in {"running", "errored"}
    /\ \E e \in IF child = "errored" THEN {[code |-> SpawnFailureCode, signal |-> "none"]}
                ELSE IF childKill # "none" THEN {[code |-> NoCode, signal |-> childKill]}
                ELSE ChildExits :
          /\ closeCode' = e.code
          /\ closeSignal' = e.signal
          /\ IF HasHooks("beforeStop", hmContext)
             THEN StartHooks("close", "beforeStop", hookLog) /\ UNCHANGED <<result, runEvents>>
             ELSE CloseAfterBeforeStop(e.code, e.signal, hookLog)
    /\ child' = "closed"
    /\ signalHandlers' = FALSE
    /\ ForgetSignal /\ UNCHANGED <<notRunVars, hookVars, lifecycleHooks, childKill>>

\* ci-output.ts:467-494: a hook awaited by the close handler ends
CloseHookEnds ==
    /\ threads["close"].pc \in {"beforeStop", "afterStop"}
    /\ IF lifecycleHooks[threads["close"].pc][threads["close"].i] = "throw"
       THEN /\ threads' = [threads EXCEPT !["close"] = Failed]
            /\ LastHookEnds("close")
            /\ UNCHANGED <<result, runEvents>>
       ELSE IF ~IsLastHook("close")
            THEN NextHook("close") /\ UNCHANGED <<result, runEvents>>
            ELSE IF threads["close"].pc = "beforeStop"
                 THEN CloseAfterBeforeStop(closeCode, closeSignal, Append(hookLog, Ended("close")))
                 ELSE /\ threads' = [threads EXCEPT !["close"] = Done]
                      /\ result' = Settled(result,
                                           Resolved(ExitCodeOf(closeCode, closeSignal), closeSignal))
                      /\ LastHookEnds("close")
                      /\ UNCHANGED runEvents
    /\ ForgetSignal /\ UNCHANGED <<notRunVars, hookVars, lifecycleHooks, child, childKill, closeCode,
                   closeSignal, signalHandlers>>

\* ci-output.ts:353-360: run() is called again in the same process, after
\* the previous call has settled and its handlers have run to their end; the
\* new call has its own child, promise and handler map, and the listeners
\* left on the process stay
RunAgain ==
    /\ result.state # "pending"
    /\ \A t \in Threads : threads[t].pc \in {"idle", "done", "failed"}
    /\ child \in {"none", "closed"}
    /\ threads' = [t \in Threads |-> Idle]
    /\ child' = "none"
    /\ childKill' = "none"
    /\ closeCode' = NoCode
    /\ closeSignal' = "none"
    /\ result' = Pending
    /\ runEvents' = <<>>
    /\ hookLog' = <<>>
    /\ ForgetSignal /\ UNCHANGED <<notRunVars, hookVars, lifecycleHooks, signalHandlers>>

\* the lifecycle hooks registered on the HookManager, over all milestones
RECURSIVE Registered(_)
Registered(evs) ==
    IF evs = {} THEN 0
    ELSE LET ev == CHOOSE e \in evs : TRUE
         IN Len(lifecycleHooks[ev]) + Registered(evs \ {ev})

\* the HookManager after construction, nothing running on it
InitLifecycle ==
    /\ lifecycleHooks = [m \in Milestones |-> <<>>]
    /\ threads = [t \in Threads |-> Idle]
    /\ child = "none" /\ childKill = "none" /\ closeCode = NoCode /\ closeSignal = "none"
    /\ signalHandlers = FALSE /\ result = Pending /\ runEvents = <<>> /\ hookLog = <<>>

\* hooks.ts:102-105: on(milestone, hook), also while a call of
\* executeLifecycle is suspended at a hook; the trace of a finished call is
\* dropped
OnMilestone ==
    \E ev \in Milestones, kind \in LifecycleKinds :
        /\ Registered(Milestones) < MaxRegistered
        /\ lifecycleHooks' = [lifecycleHooks EXCEPT ![ev] = Append(@, kind)]
        /\ IF threads["main"].pc \notin Milestones
           THEN threads' = [threads EXCEPT !["main"] = Idle] /\ hookLog' = <<>>
           ELSE UNCHANGED <<threads, hookLog>>
        /\ ForgetSignal /\ UNCHANGED <<notRunVars, hookVars, child, childKill, closeCode, closeSignal,
                       signalHandlers, result, runEvents>>

\* hooks.ts:170-176: executeLifecycle(ev) is called: it returns at once
\* without a context or without hooks, and otherwise calls the first hook
ExecuteLifecycle ==
    \E ev \in Milestones :
        /\ threads["main"].pc \notin Milestones
        /\ IF HasHooks(ev, hmContext)
           THEN StartHooks("main", ev, <<>>)
           ELSE threads' = [threads EXCEPT !["main"] = Done] /\ hookLog' = <<>>
        /\ ForgetSignal /\ UNCHANGED <<notRunVars, hookVars, lifecycleHooks, child, childKill, closeCode,
                       closeSignal, signalHandlers, result, runEvents>>

\* hooks.ts:176-178: the hook executeLifecycle awaits ends: a failure ends
\* the call, otherwise the loop goes on to the next hook or returns
LifecycleHookEnds ==
    /\ threads["main"].pc \in Milestones
    /\ IF lifecycleHooks[threads["main"].pc][threads["main"].i] = "throw"
       THEN threads' = [threads EXCEPT !["main"] = Failed] /\ LastHookEnds("main")
       ELSE IF IsLastHook("main")
            THEN threads' = [threads EXCEPT !["main"] = Done] /\ LastHookEnds("main")
            ELSE NextHook("main")
    /\ ForgetSignal /\ UNCHANGED <<notRunVars, hookVars, lifecycleHooks, child, childKill, closeCode,
                   closeSignal, signalHandlers, result, runEvents>>

-----------------------------------------------------------------------------
(* run(): the session id and the environment of the child                   *)
(* (src/src/core/ci-output.ts:359-389, 489-494).  An environment is a       *)
(* function from the names it defines to their values.                      *)

EnvKeys == {"PATH", "FOO", "GLUON_SESSION_ID"}

SessionIds == {"sess_1", "sess_2"}

EnvValues == {"a", "sess_1"}

Envs == UNION {[K -> EnvValues] : K \in SUBSET EnvKeys}

\* a call of run(): its position, the session id it generated, the session
\* id of its context and of its Result, the environment its child got, the
\* session id of the TelemetryCollector it was given, the events recorded
NoRun == [pc |-> "idle", sessionId |-> "", context |-> "", childEnv |-> <<>>, result |-> "",
          collector |-> "", events |-> <<>>]

\* telemetry.ts:201-216: record() stamps the collector's own session id
Stamped(type, collectorSession) == [type |-> type, sessionId |-> collectorSession]

\* { ...base, ...over }
Overlay(base, over) ==
    [k \in DOMAIN base \cup DOMAIN over |-> IF k \in DOMAIN over THEN over[k] ELSE base[k]]

SessionEnv(sid) == [k \in {"GLUON_SESSION_ID"} |-> sid]

mergedEnvSessionFirst(parent, overrides, sid) ==
    Overlay(Overlay(parent, SessionEnv(sid)), overrides)

\* { ...process.env, ...options.env, GLUON_SESSION_ID: sessionId }
mergedEnv(parent, overrides, sid) ==
    Overlay(Overlay(parent, overrides), SessionEnv(sid))

\* commands/run.ts:81-83, telemetry.ts:146-147: the collector handed to
\* run() was constructed with a session id generated by the command
InitEnv ==
    /\ parentEnv \in Envs
    /\ envOverrides \in Envs
    /\ \E sid \in SessionIds : spawned = [NoRun EXCEPT !.collector = sid]

\* ci-output.ts:359-366: const sessionId = generateSessionId();
\* hookManager.createContext(sessionId, ...); telemetry.recordProcessStart(...)
RunCalled ==
    /\ spawned.pc = "idle"
    /\ \E sid \in SessionIds :
         spawned' = [spawned EXCEPT
                        !.pc = "called", !.sessionId = sid, !.context = sid,
                        !.events = Append(@, Stamped("process_start", spawned.collector))]
    /\ UNCHANGED <<parentEnv, envOverrides>>
    /\ UNCHANGED <<telVars, scanVars, hookVars, runVars, streamVars, sharedVars, signalVars>>

\* spawn(command, args, { env: mergedEnv, ... })
SpawnChild ==
    /\ spawned.pc = "called"
    /\ spawned' = [spawned EXCEPT !.pc = "spawned",
                                  !.childEnv = mergedEnv(parentEnv, envOverrides, spawned.sessionId)]
    /\ UNCHANGED <<parentEnv, envOverrides>>
    /\ UNCHANGED <<telVars, scanVars, hookVars, runVars, streamVars, sharedVars, signalVars>>

\* part_003:171-175, 194-199: the monitor finds a secret in the child's
\* output and records it on the collector
SecretExposed ==
    /\ spawned.pc = "spawned"
    /\ \A k \in DOMAIN spawned.events : spawned.events[k].type # "secret_exposure"
    /\ spawned' = [spawned EXCEPT
                      !.events = Append(@, Stamped("secret_exposure", spawned.collector))]
    /\ UNCHANGED <<parentEnv, envOverrides>>
    /\ UNCHANGED <<telVars, scanVars, hookVars, runVars, streamVars, sharedVars, signalVars>>

\* ci-output.ts:444-456: child.on('error'): process_error is recorded and
\* run() rejects
ChildErrorRejects ==
    /\ spawned.pc = "spawned"
    /\ spawned' = [spawned EXCEPT
                      !.pc = "rejected",
                      !.events = Append(@, Stamped("process_error", spawned.collector))]
    /\ UNCHANGED <<parentEnv, envOverrides>>
    /\ UNCHANGED <<telVars, scanVars, hookVars, runVars, streamVars, sharedVars, signalVars>>

\* ci-output.ts:460-494: child.on('close'): process_stop is recorded and
\* run() resolves with { exitCode, signal, sessionId, durationMs }
ChildClosedResolves ==
    /\ spawned.pc = "spawned"
    /\ spawned' = [spawned EXCEPT
                      !.pc = "resolved", !.result = spawned.sessionId,
                      !.events = Append(@, Stamped("process_stop", spawned.collector))]
    /\ UNCHANGED <<parentEnv, envOverrides>>
    /\ UNCHANGED <<telVars, scanVars, hookVars, runVars, streamVars, sharedVars, signalVars>>

-----------------------------------------------------------------------------
(* Runs that share one HookManager: createRunner gives every call of its    *)
(* runner the same hookManager (src/src/core/ci-output.ts:502-515), and     *)
(* the HookManager holds one context (src/src/hooks.ts:140-179).  One hook  *)
(* is registered for every milestone and for stdout.                        *)

Runs == {"r1", "r2"}

\* generateSessionId() and child.pid: different for different runs
SessionOf(r) == IF r = "r1" THEN "sess_1" ELSE "sess_2"
PidOf(r) == IF r = "r1" THEN 101 ELSE 102

NoPid == 0
NoContext == [sessionId |-> "", pid |-> NoPid]

\* hooks.ts:140-149: createContext replaces this.context
createContext(current, sid) == [sessionId |-> sid, pid |-> NoPid]

\* hooks.ts:154-158: setProcessId writes into this.context
setProcessId(current, pid) ==
    IF current # NoContext THEN [current EXCEPT !.pid = pid] ELSE current

\* a hook of ev called on behalf of run r with the context ctx
HookCall(r, ev, ctx) == [run |-> r, ev |-> ev, ctx |-> ctx]

InitShared ==
    /\ sharedContext = NoContext
    /\ runsAt = [r \in Runs |-> "idle"]
    /\ hookCalls = {}

\* ci-output.ts:358-369: run() is called: the context is created and the
\* beforeStart hook is called and awaited
SharedRunStart(r) ==
    /\ runsAt[r] = "idle"
    /\ \E ctx \in {createContext(sharedContext, SessionOf(r))} :
         /\ sharedContext' = ctx
         /\ hookCalls' = hookCalls \cup {HookCall(r, "beforeStart", ctx)}
    /\ runsAt' = [runsAt EXCEPT ![r] = "beforeStart"]
    /\ UNCHANGED <<telVars, scanVars, hookVars, runVars, envVars, streamVars, signalVars>>

\* ci-output.ts:371-441: the beforeStart hook has ended: the child is
\* spawned, its pid is written into the context, the afterStart hook is called
SharedSpawn(r) ==
    /\ runsAt[r] = "beforeStart"
    /\ \E ctx \in {setProcessId(sharedContext, PidOf(r))} :
         /\ sharedContext' = ctx
         /\ hookCalls' = hookCalls \cup {HookCall(r, "afterStart", ctx)}
    /\ runsAt' = [runsAt EXCEPT ![r] = "running"]
    /\ UNCHANGED <<telVars, scanVars, hookVars, runVars, envVars, streamVars, signalVars>>

\* hooks.ts:184-191, 224-238: a chunk of the child's stdout passes the
\* stream transform of the run
SharedChunk(r) ==
    /\ runsAt[r] = "running"
    /\ hookCalls' = hookCalls \cup {HookCall(r, "stdout", sharedContext)}
    /\ UNCHANGED <<sharedContext, runsAt>>
    /\ UNCHANGED <<telVars, scanVars, hookVars, runVars, envVars, streamVars, signalVars>>

\* ci-output.ts:460-467: the child closes and the beforeStop hook is called
SharedClose(r) ==
    /\ runsAt[r] = "running"
    /\ hookCalls' = hookCalls \cup {HookCall(r, "beforeStop", sharedContext)}
    /\ runsAt' = [runsAt EXCEPT ![r] = "beforeStop"]
    /\ UNCHANGED sharedContext
    /\ UNCHANGED <<telVars, scanVars, hookVars, runVars, envVars, streamVars, signalVars>>

\* ci-output.ts:467-487: the beforeStop hook has ended and the afterStop hook
\* is called
SharedAfterStop(r) ==
    /\ runsAt[r] = "beforeStop"
    /\ hookCalls' = hookCalls \cup {HookCall(r, "afterStop", sharedContext)}
    /\ runsAt' = [runsAt EXCEPT ![r] = "afterStop"]
    /\ UNCHANGED sharedContext
    /\ UNCHANGED <<telVars, scanVars, hookVars, runVars, envVars, streamVars, signalVars>>

\* ci-output.ts:487-494: the afterStop hook has ended and run() resolves
SharedResolve(r) ==
    /\ runsAt[r] = "afterStop"
    /\ runsAt' = [runsAt EXCEPT ![r] = "resolved"]
    /\ UNCHANGED <<sharedContext, hookCalls>>
    /\ UNCHANGED <<telVars, scanVars, hookVars, runVars, envVars, streamVars, signalVars>>

-----------------------------------------------------------------------------
(* The specifications: each runs one component and leaves the others idle *)

IdleTelemetry ==
    /\ buffer = <<>> /\ enabled = FALSE /\ bufferSize = 1 /\ flushTimer = FALSE
    /\ cloudProjectId = FALSE /\ storage = <<>> /\ flights = {} /\ nextId = 1
    /\ logExists = FALSE /\ syncs = {}
    /\ shutdownState = "none" /\ shutdownPre = 0 /\ lastOp = NoOp

IdleScan ==
    /\ mode = "detect" /\ secretsEnabled = FALSE /\ redactText = <<>>
    /\ trackedEnvValues = <<>> /\ chunk = <<>>
    /\ matches = <<>> /\ exposures = <<>> /\ output = NoOutput /\ scanOp = "none"

IdleRun ==
    /\ lifecycleHooks = [m \in Milestones |-> <<>>]
    /\ threads = [t \in Threads |-> Idle]
    /\ child = "none" /\ childKill = "none" /\ closeCode = NoCode /\ closeSignal = "none"
    /\ signalHandlers = FALSE /\ result = Pending /\ runEvents = <<>> /\ hookLog = <<>>

IdleEnv ==
    /\ parentEnv = <<>> /\ envOverrides = <<>> /\ spawned = NoRun

IdleStream == prevChunk = <<>> /\ prevMatches = <<>>

\* the components a specification of the collector, the monitor, the hooks
\* or run() leaves idle besides those it names
IdleShared == sharedContext = NoContext /\ runsAt = [r \in Runs |-> "idle"] /\ hookCalls = {}

IdleSignals == lastSignal = NoSignal

IdleRest == IdleEnv /\ IdleStream /\ IdleShared /\ IdleSignals

TelemetryInit == InitTelemetry /\ IdleScan /\ InitHooks /\ IdleRun /\ IdleRest

NextTelemetry ==
    \/ SetCloudProjectId
    \/ Record
    \/ TimerFlush
    \/ Flush
    \/ Shutdown
    \/ FlushAppendOk
    \/ FlushFail

SpecTelemetry == TelemetryInit /\ [][NextTelemetry]_vars

\* the collector over the log of earlier sessions: reads, reconciliation with
\* the remote, and the flushes of new events
LogInit == InitLog /\ IdleScan /\ InitHooks /\ IdleRun /\ IdleRest

NextLog ==
    \/ Record
    \/ Flush
    \/ FlushAppendOk
    \/ FlushFail
    \/ ReadEvents
    \/ SyncAllToCloud
    \/ SyncWrite

SpecLog == LogInit /\ [][NextLog]_vars

\* the monitor, and the pipeline of the run it registers its hooks on
ScanInit == InitScan /\ PipelineReady /\ IdleTelemetry /\ IdleRun /\ IdleRest

NextScan ==
    \/ SetMode
    \/ TrackEnvVar
    \/ Scan
    \/ Transform
    \/ RegisterHooks
    \/ PipelineChunk

SpecScan == ScanInit /\ [][NextScan]_vars

StreamInit ==
    InitStream /\ PipelineReady /\ IdleTelemetry /\ IdleRun /\ IdleEnv /\ IdleShared /\ IdleSignals

NextStream == ScanNext

SpecStream == StreamInit /\ [][NextStream]_vars

SharedInit ==
    /\ InitShared /\ IdleTelemetry /\ IdleScan /\ InitHooks /\ IdleRun
    /\ IdleEnv /\ IdleStream /\ IdleSignals

NextShared ==
    \E r \in Runs :
        \/ SharedRunStart(r)
        \/ SharedSpawn(r)
        \/ SharedChunk(r)
        \/ SharedClose(r)
        \/ SharedAfterStop(r)
        \/ SharedResolve(r)

SpecShared == SharedInit /\ [][NextShared]_vars

HooksInit == InitHooks /\ IdleScan /\ IdleTelemetry /\ IdleRun /\ IdleRest

NextHooks ==
    \/ On
    \/ OnTransform
    \/ CreateContext
    \/ StreamChunk

SpecHooks == HooksInit /\ [][NextHooks]_vars

RunInit == InitRun /\ InitHooks /\ IdleScan /\ IdleTelemetry /\ IdleRest

NextRun ==
    \/ RunStart
    \/ BeforeStartHookEnds
    \/ Spawn
    \/ AfterStartHookEnds
    \/ ParentSignal
    \/ ChildError
    \/ ErrorHookEnds
    \/ ChildClose
    \/ CloseHookEnds
    \/ RunAgain

SpecRun == RunInit /\ [][NextRun]_vars

\* the lifecycle side of a HookManager on its own
EnvInit ==
    InitEnv /\ IdleTelemetry /\ IdleScan /\ InitHooks /\ IdleRun /\ IdleStream /\ IdleShared /\ IdleSignals

NextEnv ==
    \/ RunCalled
    \/ SpawnChild
    \/ SecretExposed
    \/ ChildErrorRejects
    \/ ChildClosedResolves

SpecEnv == EnvInit /\ [][NextEnv]_vars

LifecycleInit == InitLifecycle /\ InitHooks /\ IdleScan /\ IdleTelemetry /\ IdleRest

NextLifecycle ==
    \/ OnMilestone
    \/ CreateContext
    \/ ExecuteLifecycle
    \/ LifecycleHookEnds

SpecLifecycle == LifecycleInit /\ [][NextLifecycle]_vars

-----------------------------------------------------------------------------
(* Claims about the TelemetryCollector *)

IdSeq(s) == [k \in 1..Len(s) |-> s[k].id]

\* the ids from..to-1 in increasing order: the events record() stamped while a
\* flush that started at id from was in progress
IdsFrom(from, to) == [k \in 1..(to - from) |-> from + k - 1]

IsPrefix(p, s) == Len(p) <= Len(s) /\ \A k \in 1..Len(p) : p[k] = s[k]

\* the number of snapshots of flushes in progress that hold event i
InFlightCount(i) ==
    Cardinality({x \in UNION {{f} \X (1..Len(f.snapshot)) : f \in flights} :
                    x[1].snapshot[x[2]].id = i})

InMemory(i) == CountId(buffer, i) > 0 \/ InFlightCount(i) > 0

C3_ShutdownFlushesAll ==
    (enabled /\ shutdownState = "resolved") =>
        \A i \in 1..shutdownPre : CountId(storage, i) = 1 /\ ~InMemory(i)

\* all lines of the log but the last
Front(lines) == SubSeq(lines, 1, Len(lines) - 1)

\* the last line of the log is not valid JSON and every line before it is
TornAtEnd(lines) ==
    /\ lines # <<>>
    /\ lines[Len(lines)] = TornLine
    /\ \A k \in 1..Len(lines) - 1 : lines[k] # TornLine

\* C21 as stated: readEvents on a log whose last line is malformed returns
\* the events of all well-formed lines before it instead of failing.
C21_TornLastLineTolerated ==
    (lastOp.op = "read" /\ TornAtEnd(storage)) =>
        /\ ~lastOp.out.threw
        /\ ~lastOp.limit.given => lastOp.out.events = Front(storage)

\* C22: a successful syncAllToCloud() on a linked project returns the number
\* of events of the log that lacked the synced marker, and afterwards the log
\* holds the same events in the same order, every one marked synced; when no
\* event was unsynced it returns 0 and does not write the log.
C22_SyncMarksTheLog ==
    lastOp.op = "synced" =>
        /\ cloudProjectId
        /\ lastOp.result = Cardinality({k \in DOMAIN lastOp.before : ~lastOp.before[k].synced})
        /\ IdSeq(storage) = IdSeq(lastOp.before)
        /\ IF lastOp.result = 0
           THEN ~lastOp.wrote /\ storage = lastOp.before
           ELSE lastOp.wrote /\ \A k \in DOMAIN storage : storage[k].synced

\* a log of one synced and one unsynced event has been reconciled
C22_Witness ==
    /\ lastOp.op = "synced" /\ lastOp.wrote
    /\ lastOp.result = 1
    /\ Len(lastOp.before) = 2
    /\ \A k \in DOMAIN storage : storage[k].synced

\* C23 as stated: if remote delivery fails during syncAllToCloud(), the call
\* fails, the durable log is left unchanged and the affected events remain
\* without a synced marker, to be selected again by the next call.
C23_FailedDeliveryKeepsUnsynced ==
    (/\ lastOp.op \in {"synced", "syncFailed"}
     /\ ~lastOp.remoteUp
     /\ cloudProjectId
     /\ Unsynced(lastOp.before) # <<>>) =>
        /\ lastOp.op = "syncFailed"
        /\ \A k \in DOMAIN lastOp.before :
              ~lastOp.before[k].synced =>
                  \E j \in DOMAIN storage :
                      storage[j].id = lastOp.before[k].id /\ ~storage[j].synced

\* the last n elements of s, all of s when it has fewer
LastN(s, n) == [k \in 1..(IF n < Len(s) THEN n ELSE Len(s)) |->
                   s[Len(s) - (IF n < Len(s) THEN n ELSE Len(s)) + k]]

\* C24 as stated: readEvents(limit) returns the last min(limit, N) events of
\* the N-event log, in log order, for every limit >= 0 that is given; without
\* a limit it returns all N events, and an empty list when the log file does
\* not exist.
C24_ReadReturnsLastEvents ==
    (lastOp.op = "read" /\ \A k \in DOMAIN storage : storage[k] # TornLine) =>
        /\ ~lastOp.out.threw
        /\ lastOp.out.events =
              IF ~logExists THEN <<>>
              ELSE IF lastOp.limit.given THEN LastN(storage, lastOp.limit.n)
              ELSE storage

\* C25: flush() on an empty buffer returns 0, performs no durable write (the
\* log is not created or changed) and leaves the buffer empty, however many
\* times it is repeated.
C25_EmptyFlushDoesNothing ==
    [][(buffer = <<>> /\ lastOp'.op \in {"flushStarted", "flushedNothing"}) =>
          /\ lastOp'.op = "flushedNothing" /\ lastOp'.result = 0
          /\ buffer' = <<>>
          /\ flights' = flights
          /\ storage' = storage /\ logExists' = logExists]_vars

\* flush() has returned 0 on an empty buffer while no log exists and another
\* flush is still in progress
C25_Witness ==
    /\ lastOp.op = "flushedNothing"
    /\ buffer = <<>>
    /\ ~logExists
    /\ flights # {}

\* C30 as stated: an event appended to the log by a flush that completes
\* while syncAllToCloud() is in progress, between its read and its rewrite of
\* the log, is still in the log after syncAllToCloud() finishes:
\* reconciliation never removes an event from the log.
C30_SyncKeepsAppendedEvents ==
    (lastOp.op = "synced" /\ lastOp.wrote) =>
        \A k \in DOMAIN lastOp.replaced : CountId(storage, lastOp.replaced[k].id) = 1

-----------------------------------------------------------------------------
(* Claims about the SecretsMonitor *)

MonitorActed == scanOp \in {"scan", "transform", "pipeline"}

\* C4 as stated: for every SecretMatch scan returned, the redacted snippet
\* does not contain the raw matched text as a substring.
C4_SnippetHidesMatch ==
    MonitorActed =>
        \A k \in 1..Len(matches) :
            ~Includes(matches[k].redactedSnippet, matches[k].matchedText)

\* the number of (possibly overlapping) occurrences of value in text
Occurrences(text, value) ==
    Cardinality({s \in 0..(Len(text) - Len(value)) :
                    SubSeq(text, s + 1, s + Len(value)) = value})

\* the spans of ms are pairwise disjoint
NonOverlapping(ms) ==
    \A j, k \in 1..Len(ms) :
        j # k => (ms[j].end <= ms[k].start \/ ms[k].end <= ms[j].start)

\* the text from pos on with every span of ms replaced by rtext, the spans
\* taken from left to right
RECURSIVE RedactedFrom(_, _, _, _)
RedactedFrom(text, pos, ms, rtext) ==
    LET later == {k \in 1..Len(ms) : ms[k].start >= pos}
    IN IF later = {} THEN SliceFrom(text, pos)
       ELSE LET k == CHOOSE a \in later : \A b \in later : ms[a].start <= ms[b].start
            IN Slice(text, pos, ms[k].start) \o rtext
               \o RedactedFrom(text, ms[k].end, ms, rtext)

\* C5 as stated: in redact mode, for a chunk whose matches are N pairwise
\* non-overlapping spans, the output is the input with each matched span
\* replaced by the redaction text: the redaction text appears N times, no
\* matched substring remains, and the text between and around the matches is
\* unchanged and in order.
C5_RedactReplacesEverySpan ==
    (scanOp = "transform" /\ mode = "redact" /\ NonOverlapping(matches)) =>
        /\ ~output.null
        /\ Utf8Decode(output.data) = RedactedFrom(Utf8Decode(chunk), 0, matches, redactText)
        /\ Occurrences(Utf8Decode(output.data), redactText) = Len(matches)
        /\ \A k \in 1..Len(matches) :
               ~Includes(Utf8Decode(output.data), matches[k].matchedText)

\* C6: in block mode transform returns null for every chunk with at least one
\* match and returns the chunk unchanged for every chunk with no match.
C6_BlockSuppressesMatchingChunk ==
    (scanOp = "transform" /\ mode = "block") =>
        IF matches # <<>> THEN output = Suppress ELSE output = Forward(chunk)

\* transform has suppressed a chunk with two matches in block mode
C6_Witness ==
    /\ scanOp = "transform"
    /\ mode = "block"
    /\ Len(matches) >= 2
    /\ output.null

\* C7: in detect mode transform returns the input bytes unchanged, for a
\* chunk with or without matches, and a pipeline on which the monitor
\* registered its hooks in detect mode (it registered an observer) forwards
\* every chunk byte-identical to its input.
C7_DetectLeavesBytesAlone ==
    /\ (scanOp = "transform" /\ mode = "detect") => output = Forward(chunk)
    /\ (scanOp = "pipeline" /\ streamHooks = <<"monitor">>) =>
           forwarded = Called(Forward(chunk))

\* a chunk with a match and a byte that is not valid UTF-8 has passed the
\* pipeline the enabled monitor registered on in detect mode
C7_Witness ==
    /\ scanOp = "pipeline"
    /\ streamHooks = <<"monitor">>
    /\ matches # <<>>
    /\ \E k \in 1..Len(chunk) : chunk[k] = "0xFF"
    /\ forwarded.called

-----------------------------------------------------------------------------
(* Claims about the HookManager *)

\* C8 as stated: for every chunk passing through the stream transform of a
\* pipeline (its context created), every observer registered for the stream
\* is invoked exactly once with the original chunk, whatever the transform
\* chain did.
C8_ObserversSeeEveryChunk ==
    (pipeOp = "write" /\ hmContext) =>
        observerCalls = [k \in 1..Len(streamHooks) |-> <<k, pipeChunk>>]

\* the value the transform chain yields when a throwing hook is skipped and
\* the value from before it is carried forward
RECURSIVE IsolatedFrom(_, _, _)
IsolatedFrom(hooks, i, cur) ==
    IF i > Len(hooks) \/ cur.null THEN cur
    ELSE IsolatedFrom(hooks, i + 1,
                      IF hooks[i] = "replace" THEN Forward(Replaced(cur.data))
                      ELSE IF hooks[i] = "null" THEN Suppress
                      ELSE cur)

\* C9 as stated: when a stream hook throws while processing a chunk, the
\* exception is caught, the remaining hooks still run, the chunk value from
\* before the failing hook is carried forward, the chunk is still forwarded,
\* and later chunks keep flowing.
C9_ThrowingHookIsIsolated ==
    (pipeOp = "write" /\ hmContext) =>
        /\ forwarded = Called(IsolatedFrom(transformHooks, 1, Forward(pipeChunk)))
        /\ Len(observerCalls) = Len(streamHooks)
        /\ pipeState = "open"

\* the current chunk after a hook of this kind has returned
AfterHook(kind, cur) ==
    IF kind = "replace" THEN Forward(Replaced(cur.data))
    ELSE IF kind = "null" THEN Suppress
    ELSE cur

\* the calls of a chain of transform hooks in which each hook is given the
\* result of the one before it and nothing is called after a null
RECURSIVE ChainCalls(_, _, _)
ChainCalls(hooks, i, cur) ==
    IF i > Len(hooks) \/ cur.null THEN <<>>
    ELSE <<<<i, cur.data>>>> \o ChainCalls(hooks, i + 1, AfterHook(hooks[i], cur))

RECURSIVE ChainResult(_, _, _)
ChainResult(hooks, i, cur) ==
    IF i > Len(hooks) \/ cur.null THEN cur
    ELSE ChainResult(hooks, i + 1, AfterHook(hooks[i], cur))

\* C16: applyTransforms applies the stream's transform hooks in registration
\* order, each receiving the result of the previous one: a returned buffer
\* replaces the current chunk, undefined leaves it unchanged, and null makes
\* the result null, after which no later transform hook is invoked.
C16_TransformsChain ==
    (pipeOp = "write" /\ hmContext /\ pipeState = "open") =>
        /\ transformCalls = ChainCalls(transformHooks, 1, Forward(pipeChunk))
        /\ forwarded = Called(ChainResult(transformHooks, 1, Forward(pipeChunk)))

C16_Witness ==
    /\ pipeOp = "write" /\ hmContext /\ pipeState = "open"
    /\ transformHooks = <<"replace", "null">>
    /\ transformCalls = <<<<1, pipeChunk>>, <<2, Replaced(pipeChunk)>>>>
    /\ forwarded = Called(Suppress)

\* match m was found for a tracked environment value
IsTrackedMatch(m) == m.envVar # ""

\* C19 as stated: in each of the three modes, every chunk of the child's
\* output that contains a match leads to one secret_exposure telemetry event
\* per match, with critical severity for tracked-value matches, carrying the
\* redacted snippet and not the matched text, also when the chunk is redacted
\* or withheld from the output.
C19_ExposureEventPerMatch ==
    scanOp = "pipeline" =>
        /\ Len(exposures) = Len(matches)
        /\ \A k \in 1..Len(matches) :
              /\ exposures[k].type = "secret_exposure"
              /\ exposures[k].patternName = matches[k].patternName
              /\ exposures[k].snippet = matches[k].redactedSnippet
              /\ IsTrackedMatch(matches[k]) => exposures[k].severity = "critical"
              /\ ~Includes(exposures[k].snippet, matches[k].matchedText)

\* C20: a tracked environment value of length 8 or more that occurs verbatim
\* in a scanned chunk produces a match named ENV:<name>; a value shorter than
\* 8 characters is never in the tracked set and never produces a match.
C20_TrackedValuesFlagged ==
    /\ \A i \in DOMAIN trackedEnvValues : Len(trackedEnvValues[i].value) >= 8
    /\ (scanOp \in {"scan", "transform"} /\ secretsEnabled) =>
          /\ \A i \in DOMAIN trackedEnvValues :
                Includes(Utf8Decode(chunk), trackedEnvValues[i].value) =>
                    \E k \in DOMAIN matches :
                        /\ matches[k].patternName = "ENV:" \o trackedEnvValues[i].name
                        /\ matches[k].matchedText = trackedEnvValues[i].value
          /\ \A k \in DOMAIN matches :
                IsTrackedMatch(matches[k]) => Len(matches[k].matchedText) >= 8

\* a chunk holding the tracked value of DB_PASS has been scanned
C20_Witness ==
    /\ scanOp = "scan" /\ secretsEnabled
    /\ trackedEnvValues = <<[name |-> "DB_PASS", value |-> SecretValue]>>
    /\ Includes(Utf8Decode(chunk), SecretValue)
    /\ \E k \in DOMAIN matches : matches[k].patternName = "ENV:DB_PASS"

-----------------------------------------------------------------------------
(* Claims about run() *)

\* the spawn of the run's command failed
SpawnFailed == child \in {"failed", "errored"} \/ threads["error"] # Idle

\* nothing of the run is left to happen
RunOver ==
    /\ child = "closed"
    /\ \A t \in Threads : threads[t].pc \in {"done", "failed"}

\* C10 as stated: when the command cannot be spawned, run() rejects with a
\* 'Failed to start command' error and never resolves with a Result carrying
\* a numeric exit code.
C10_SpawnFailureRejects ==
    SpawnFailed =>
        /\ result.state # "resolved"
        /\ RunOver => result = Rejected("Failed to start command")

\* C11: when the child closes, Result.exitCode is 130 if it was killed by
\* SIGINT, 143 for SIGTERM, 129 for SIGHUP and 128 for any other signal;
\* otherwise it is the child's own exit code, or 0 if the child reported none;
\* Result.signal is the killing signal, or absent.
C11_ExitCodeMapping ==
    result.state = "resolved" =>
        /\ result.signal = closeSignal
        /\ closeSignal = "SIGINT" => result.exitCode = 130
        /\ closeSignal = "SIGTERM" => result.exitCode = 143
        /\ closeSignal = "SIGHUP" => result.exitCode = 129
        /\ closeSignal \notin {"none", "SIGINT", "SIGTERM", "SIGHUP"} => result.exitCode = 128
        /\ (closeSignal = "none" /\ ~closeCode.null) => result.exitCode = closeCode.value
        /\ (closeSignal = "none" /\ closeCode.null) => result.exitCode = 0

\* run() has resolved for a child that was killed by a forwarded SIGTERM
C11_Witness ==
    /\ result.state = "resolved"
    /\ childKill = "SIGTERM"
    /\ closeSignal = "SIGTERM"
    /\ result.exitCode = 143

\* C12 as stated: a failure of an after-start, before-stop or after-stop hook
\* is caught and does not abort the run: once the child has closed and every
\* handler has run to its end, run() has resolved with the Result.
C12_LateHookFailureDoesNotAbort ==
    (/\ ~SpawnFailed
     /\ child = "closed"
     /\ threads["close"].pc \in {"done", "failed"}
     /\ threads["afterStart"].pc = "done") => result.state = "resolved"

\* hook i of milestone ev was started, threw, and is no longer awaited
HookFailed(ev, i) ==
    /\ i \in DOMAIN lifecycleHooks[ev]
    /\ lifecycleHooks[ev][i] = "throw"
    /\ \E k \in DOMAIN hookLog :
          /\ hookLog[k].ev = ev /\ hookLog[k].i = i /\ hookLog[k].what = "end"

BeforeStartFailed == \E i \in 1..MaxLifecycleHooks + 1 : HookFailed("beforeStart", i)

\* C13: if a before-start hook fails, run() rejects with that failure, the
\* child is never spawned and no signal handler is installed on the parent.
C13_BeforeStartFailureAborts ==
    BeforeStartFailed =>
        /\ result = Rejected("beforeStart hook")
        /\ child = "none"
        /\ ~signalHandlers
        /\ childKill = "none"

C13_Witness ==
    /\ BeforeStartFailed
    /\ result.state = "rejected"
    /\ lifecycleHooks["afterStart"] # <<>>
    /\ threads["afterStart"] = Idle

\* C14: after run() has settled (resolved or rejected), none of the
\* SIGINT/SIGTERM/SIGHUP handlers it installed on the parent process remain
\* registered, so that sequential runs leave no handler behind.
C14_NoHandlerAfterSettle ==
    result.state # "pending" => ~signalHandlers

C14_Witness ==
    /\ result.state = "resolved"
    /\ childKill \in FORWARDED_SIGNALS
    /\ ~signalHandlers

\* the trace of one call of executeLifecycle(ev) that ran its hooks one
\* after the other: hook 1 starts, hook 1 ends, hook 2 starts, ...
InTurn(log, t, ev) ==
    \A k \in DOMAIN log :
        log[k] = [call |-> t, ev |-> ev, i |-> (k + 1) \div 2,
                  what |-> IF k % 2 = 1 THEN "start" ELSE "end"]

\* C15: executeLifecycle for a milestone invokes the hooks registered for it
\* in registration order, and a hook is not started until the hook before it
\* has completed; a call that returns has invoked every hook of the milestone.
C15_LifecycleHooksInTurn ==
    hookLog # <<>> =>
        /\ InTurn(hookLog, "main", hookLog[1].ev)
        /\ Len(hookLog) <= 2 * Len(lifecycleHooks[hookLog[1].ev])
        /\ threads["main"] = Done => Len(hookLog) = 2 * Len(lifecycleHooks[hookLog[1].ev])

C15_Witness ==
    /\ threads["main"] = Done
    /\ Len(hookLog) = 6
    /\ hookLog[5].i = 3 /\ hookLog[5].what = "start"

\* the place of a milestone in the order of a run
Rank(ev) ==
    IF ev = "beforeStart" THEN 1
    ELSE IF ev = "afterStart" THEN 2
    ELSE IF ev = "beforeStop" THEN 3
    ELSE 4

\* a hook of one of these milestones has started in this run
HasStarted(evs) ==
    \E k \in DOMAIN hookLog : hookLog[k].what = "start" /\ hookLog[k].ev \in evs

\* C17 as stated: within one run the milestones are ordered before-start,
\* after-start, before-stop, after-stop and the run never goes back: no hook
\* starts after a hook of a later milestone has started, and once a
\* before-stop or after-stop hook has started no after-start hook is still
\* executing.
C17_MilestonesInOrder ==
    /\ \A j, k \in DOMAIN hookLog :
          (j < k /\ hookLog[j].what = "start" /\ hookLog[k].what = "start")
              => Rank(hookLog[j].ev) <= Rank(hookLog[k].ev)
    /\ HasStarted({"beforeStop", "afterStop"}) => threads["afterStart"].pc # "afterStart"

\* the entries of the trace for the hooks of milestone ev
Of(log, ev) == SelectSeq(log, LAMBDA e : e.ev = ev)

\* every hook that has started has ended
AllEnded(log) ==
    \A k \in DOMAIN log :
        log[k].what = "start" =>
            \E j \in k + 1..Len(log) : log[j] = [log[k] EXCEPT !.what = "end"]

\* C18 as stated: on the child's close, all before-stop hooks complete before
\* the first after-stop hook starts, and run() resolves with the Result only
\* after all after-stop hooks have completed.
C18_StopHooksBeforeResolve ==
    /\ \A k \in DOMAIN hookLog :
          (child = "closed" /\ hookLog[k].ev = "afterStop" /\ hookLog[k].what = "start")
              => /\ Len(Of(SubSeq(hookLog, 1, k - 1), "beforeStop"))
                       = 2 * Len(lifecycleHooks["beforeStop"])
                 /\ Of(SubSeq(hookLog, k + 1, Len(hookLog)), "beforeStop") = <<>>
    /\ result.state = "resolved" =>
          /\ Len(Of(hookLog, "afterStop")) >= 2 * Len(lifecycleHooks["afterStop"])
          /\ AllEnded(Of(hookLog, "afterStop"))

\* C26: the GLUON_SESSION_ID of the child's environment is the session id
\* of the run's context and of the result, whatever GLUON_SESSION_ID the
\* caller's overrides hold; every other override beats the parent's value.
C26_ChildSessionIdIsTheRuns ==
    spawned.pc \in {"spawned", "resolved"} =>
        /\ "GLUON_SESSION_ID" \in DOMAIN spawned.childEnv
        /\ spawned.childEnv["GLUON_SESSION_ID"] = spawned.context
        /\ spawned.pc = "resolved" => spawned.result = spawned.context
        /\ \A k \in DOMAIN envOverrides \ {"GLUON_SESSION_ID"} :
             k \in DOMAIN spawned.childEnv /\ spawned.childEnv[k] = envOverrides[k]
        /\ \A k \in DOMAIN parentEnv \ (DOMAIN envOverrides \cup {"GLUON_SESSION_ID"}) :
             k \in DOMAIN spawned.childEnv /\ spawned.childEnv[k] = parentEnv[k]

C26_Witness ==
    /\ spawned.pc = "resolved"
    /\ "GLUON_SESSION_ID" \in DOMAIN envOverrides
    /\ envOverrides["GLUON_SESSION_ID"] # spawned.sessionId
    /\ "FOO" \in DOMAIN envOverrides /\ "FOO" \in DOMAIN parentEnv
    /\ envOverrides["FOO"] # parentEnv["FOO"]
    /\ spawned.childEnv["FOO"] = envOverrides["FOO"]
\* the value lies across the boundary of two consecutive chunks
Straddles(value, first, second) ==
    /\ ~Includes(Utf8Decode(first), value)
    /\ ~Includes(Utf8Decode(second), value)
    /\ Includes(Utf8Decode(first \o second), value)

SeqRange(s) == {s[k] : k \in DOMAIN s}

Covered(text, ms) ==
    {o \in 0..(Len(text) - 1) : \E k \in 1..Len(ms) : ms[k].start <= o /\ o < ms[k].end}

\* the characters of text outside every span of ms, in order
RECURSIVE OutsideFrom(_, _, _)
OutsideFrom(text, o, covered) ==
    IF o >= Len(text) THEN <<>>
    ELSE (IF o \in covered THEN <<>> ELSE <<text[o + 1]>>) \o OutsideFrom(text, o + 1, covered)

\* text without the characters of the redaction text (no chunk of the model
\* holds one of them)
WithoutRedaction(text, rtext) ==
    SelectSeq(text, LAMBDA ch : \A k \in 1..Len(rtext) : rtext[k] # ch)

\* C28 as stated: in redact mode, for every set of matches of a chunk,
\* overlapping, nested or identical spans included, the output holds no
\* character that lay inside a matched span and holds all the text outside
\* every matched span, unchanged and in order.
C28_RedactCoversOverlappingSpans ==
    (scanOp = "transform" /\ mode = "redact" /\ matches # <<>>) =>
        /\ ~output.null
        /\ WithoutRedaction(Utf8Decode(output.data), redactText)
              = OutsideFrom(Utf8Decode(chunk), 0, Covered(Utf8Decode(chunk), matches))
\* C29 as stated: in redact mode the output of transform for a chunk never
\* holds a tracked value verbatim, also when the value occurs more than once
\* in the chunk.
C29_RedactHidesEveryOccurrence ==
    (scanOp = "transform" /\ mode = "redact" /\ secretsEnabled) =>
        \A k \in 1..Len(trackedEnvValues) :
            ~output.null /\ ~Includes(Utf8Decode(output.data), trackedEnvValues[k].value)
-----------------------------------------------------------------------------
(* Further claims about the TelemetryCollector *)

\* the events of s are in the order they were recorded (ids ascend)
InRecordOrder(s) == \A j, k \in 1..Len(s) : j < k => s[j].id < s[k].id

\* C31 as stated: after any sequence of record calls and flush attempts,
\* overlapping flushes that fail in either order included, the buffer holds
\* its events in the order they were recorded.
C31_BufferInRecordOrder == InRecordOrder(buffer)
\* what a step of record() does to the buffer and the flushes in progress
RecordStep ==
    IF enabled
    THEN LET b == Append(buffer, NewEvent(nextId))
         IN /\ IF Len(b) >= bufferSize
               THEN /\ buffer' = <<>>
                    /\ \E f \in flights' :
                          f.kind = "record" /\ IdSeq(f.snapshot) = IdSeq(b)
               ELSE buffer' = b /\ flights' = flights
            /\ Len(buffer') < bufferSize
    ELSE buffer' = buffer /\ flights' = flights

\* C37: with telemetry enabled a record call that brings the buffer to
\* bufferSize events or more starts a flush of the whole buffer before it
\* returns, so that the buffer holds fewer than bufferSize events after
\* record returns; a failure of that flush is caught and logged, not thrown
\* to the caller of record.  With telemetry disabled record leaves the
\* buffer alone.
C37_RecordFlushesAtSize ==
    /\ [][nextId' = nextId + 1 => RecordStep]_vars
    /\ []((lastOp.op = "flushFailed" /\ lastOp.kind = "record") => lastOp.caught)

\* the flush a record call started on a buffer of two events has failed
C37_Witness ==
    /\ lastOp.op = "flushFailed"
    /\ lastOp.kind = "record"
    /\ lastOp.caught
    /\ Len(lastOp.snapshot) >= 2
    /\ Len(buffer) >= bufferSize

-----------------------------------------------------------------------------
(* Further claims about run() *)

\* how many times hook i of milestone ev has been started in this run
TimesStarted(ev, i) ==
    Cardinality({k \in DOMAIN hookLog :
                    hookLog[k].ev = ev /\ hookLog[k].i = i /\ hookLog[k].what = "start"})

\* the run got past beforeStart and every handler of it has run to its end
HandlersOver ==
    /\ threads["main"] = Done
    /\ child = "closed"
    /\ \A t \in Threads : threads[t].pc \in {"idle", "done", "failed"}

\* C32 as stated: the afterStop hooks are executed exactly once per run that
\* got past beforeStart, on the normal exit path and on the spawn failure
\* path, also when the child emits both an error and a close event.
C32_AfterStopOnce ==
    \A i \in 1..Len(lifecycleHooks["afterStop"]) :
        /\ TimesStarted("afterStop", i) <= 1
        /\ (HandlersOver /\ result.state # "pending") => TimesStarted("afterStop", i) = 1
\* the context of run r, before and after its child has a pid
OwnContexts(r) ==
    {[sessionId |-> SessionOf(r), pid |-> NoPid], [sessionId |-> SessionOf(r), pid |-> PidOf(r)]}

\* C33 as stated: every lifecycle and stream hook invoked on behalf of a
\* run receives that run's own context, also when two runs started through
\* the same runner overlap in time.
C33_HooksGetOwnContext ==
    \A c \in hookCalls : c.ctx \in OwnContexts(c.run)
\* C34 as stated: every telemetry event recorded for a run by the
\* supervisor and the monitors carries the session id of the run's Result,
\* of its context and of the GLUON_SESSION_ID given to the child.
C34_EventsCarryRunSessionId ==
    \A k \in DOMAIN spawned.events :
        /\ spawned.events[k].sessionId = spawned.context
        /\ spawned.pc \in {"spawned", "resolved", "rejected"} =>
               spawned.events[k].sessionId = spawned.childEnv["GLUON_SESSION_ID"]
        /\ spawned.pc = "resolved" => spawned.events[k].sessionId = spawned.result
\* the events of the given types recorded for the run so far
Recorded(types) == Cardinality({k \in DOMAIN runEvents : runEvents[k] \in types})

\* run() has settled and nothing of it is left to execute
RunEnded ==
    /\ result.state # "pending"
    /\ child \in {"none", "closed"}
    /\ \A t \in Threads : threads[t].pc \in {"idle", "done", "failed"}

\* C35 as stated: the process_start event of a run is followed by exactly
\* one process_stop or process_error event, whichever way the run ends: never
\* more than one, and one once the run has ended.
C35_StartHasOneEnd ==
    Recorded({"process_start"}) > 0 =>
        /\ Recorded({"process_stop", "process_error"}) <= 1
        /\ RunEnded => Recorded({"process_stop", "process_error"}) = 1
-----------------------------------------------------------------------------
(* Further claims about the SecretsMonitor *)

\* the monitor's hooks are the hooks of the pipeline
MonitorRegistered ==
    \/ transformHooks = <<"monitor">> /\ streamHooks = <<>>
    \/ transformHooks = <<>> /\ streamHooks = <<"monitor">>

\* C36 as stated: the pipeline the monitor registered its hooks on treats a
\* chunk according to the monitor's current mode (detect: forwarded
\* unchanged, redact: matched spans replaced, block: a chunk with a match
\* suppressed), whichever mode was current when registerHooks was called.
C36_PipelineFollowsSetMode ==
    (scanOp = "pipeline" /\ MonitorRegistered /\ secretsEnabled) =>
        forwarded = Called(transformResult(chunk, scan(chunk, TRUE, trackedEnvValues),
                                           mode, redactText))
\* C38: while the child is running, a SIGINT, SIGTERM or SIGHUP delivered
\* to the parent is forwarded to the child as the same signal; once the
\* child has closed, such a signal is no longer forwarded to it.
C38_SignalsForwardedWhileRunning ==
    lastSignal.sig \in {"SIGINT", "SIGTERM", "SIGHUP"} =>
        /\ lastSignal.child = "running" => lastSignal.forwarded = lastSignal.sig
        /\ lastSignal.child = "closed" => lastSignal.forwarded = "none"

\* a SIGHUP arrived after the child, sent a SIGINT earlier, had closed
C38_Witness ==
    /\ lastSignal = [sig |-> "SIGHUP", child |-> "closed", forwarded |-> "none"]
    /\ childKill = "SIGINT"
    /\ closeSignal = "SIGINT"
=============================================================================
